--------------------------- MODULE ConfluenceRead ---------------------------
(***************************************************************************)
(* The read of a whole Confluence space (document_connectors/              *)
(* confluence.py, _search_all): a search answered a page of results at a   *)
(* time, while the space changes under it.  A sync stores what the read    *)
(* returned as the whole space and removes everything else.                *)
(*                                                                         *)
(* A wiki page is its rank by creation, the order of the search.           *)
(***************************************************************************)
EXTENDS Integers, Sequences, FiniteSets, SequencesExt, FiniteSetsExt

CONSTANTS
    WikiPages,     \* pages by rank; any of them may be in the space
    SearchPage,    \* _SEARCH_PAGE_SIZE
    PageCap,       \* NLQ_MAX_CONFLUENCE_PAGES
    SpaceChanges   \* bound on the changes to the space during the read

ASSUME ReadAssumption ==
    /\ WikiPages \subseteq Nat \ {0} /\ IsFiniteSet(WikiPages)
    /\ SearchPage \in Nat \ {0} /\ PageCap \in Nat /\ SpaceChanges \in Nat

VARIABLES
    space,     \* the pages in the space
    paging,    \* how client and server page: "cursor", "start", or "stuck", a
               \* server that ignores start
    totals,    \* the server reports totalSize
    spaceChanges,   \* changes so far
    steady,    \* pages that have been in the space since the read began
    shrunk,    \* a page has left the space since then
    results,   \* the distinct results, in the order they came
    consumed,  \* raw results so far
    cursor,    \* the rank the next link's cursor stands at; 0 for none
    readPc

readVars == <<space, paging, totals, spaceChanges, steady, shrunk, results, consumed, cursor, readPc>>

ReadInit ==
    /\ space \in SUBSET WikiPages /\ steady = space
    /\ paging \in {"cursor", "start", "stuck"} /\ totals \in BOOLEAN
    /\ spaceChanges = 0 /\ shrunk = FALSE
    /\ results = <<>> /\ consumed = 0 /\ cursor = 0
    /\ readPc = "reading"

----------------------------------------------------------------------------
(* The space: pages are created, moved in or restored, deleted, moved out  *)
(* or hidden.                                                              *)

SpaceChange ==
    /\ readPc = "reading" /\ spaceChanges < SpaceChanges
    /\ spaceChanges' = spaceChanges + 1
    /\ UNCHANGED <<paging, totals, results, consumed, cursor, readPc>>

PageEnters(page) ==
    /\ page \notin space
    /\ space' = space \cup {page}
    /\ SpaceChange /\ UNCHANGED <<steady, shrunk>>

Leaves(page) ==
    /\ page \in space
    /\ space' = space \ {page} /\ steady' = steady \ {page} /\ shrunk' = TRUE
    /\ SpaceChange

----------------------------------------------------------------------------
(* One search request, answered from the space as it is.                   *)

PageRank(page) == Cardinality({other \in space : other <= page})
Listing == [i \in 1..Cardinality(space) |-> CHOOSE page \in space : PageRank(page) = i]

\* The results before the batch: those up to the cursor, or the first `start`.
Skipped ==
    CASE cursor # 0 -> Cardinality({page \in space : page <= cursor})
      [] cursor = 0 /\ paging = "stuck" -> 0
      [] OTHER -> consumed

Batch == SubSeq(Listing, Skipped + 1, Min({Skipped + SearchPage, Len(Listing)}))
HasNext == Skipped + SearchPage < Len(Listing)

FreshPage ==
    FoldLeft(LAMBDA fresh, page : IF page \in ToSet(results) THEN fresh ELSE Append(fresh, page),
             <<>>, Batch)

\* A request that brings nothing new while more is reported is refused.
BringsNew(distinct) == Len(distinct) > Len(results)

\* Mutant of Short: the end of the results is taken for the end of the space.
NeverShort(distinct) == FALSE

\* Distinct pages short of totalSize: the window shifted under the read.
Short(distinct) == totals /\ Len(distinct) < Len(Listing)

Search ==
    /\ readPc = "reading"
    /\ LET distinct == results \o FreshPage
           more == IF totals THEN consumed + Len(Batch) < Len(Listing) ELSE HasNext
           declared == IF totals THEN Len(Listing) ELSE 0
       IN /\ results' = distinct
          /\ consumed' = consumed + Len(Batch)
          /\ cursor' = IF paging = "cursor" /\ HasNext THEN Last(Batch) ELSE 0
          /\ readPc' =
                CASE Max({declared, Len(distinct)}) > PageCap -> "refused"
                  [] OTHER ->
                       IF more THEN IF BringsNew(distinct) THEN "reading" ELSE "refused"
                       ELSE IF Short(distinct) THEN "refused" ELSE "returned"
    /\ UNCHANGED <<space, paging, totals, spaceChanges, steady, shrunk>>

ReadNext ==
    \/ Search
    \/ \E page \in WikiPages : PageEnters(page) \/ Leaves(page)

ReadSpec == ReadInit /\ [][ReadNext]_readVars

----------------------------------------------------------------------------

ReadTypeOK ==
    /\ space \subseteq WikiPages /\ steady \subseteq space
    /\ paging \in {"cursor", "start", "stuck"}
    /\ totals \in BOOLEAN /\ shrunk \in BOOLEAN
    /\ spaceChanges \in 0..SpaceChanges
    /\ results \in Seq(WikiPages) /\ IsInjective(results)
    /\ consumed \in Nat /\ cursor \in WikiPages \cup {0}
    /\ readPc \in {"reading", "returned", "refused"}

\* A read that returns holds every page that was in the space throughout, as long as
\* no page left it meanwhile: pages that arrive in the middle shift the window, and
\* the read is refused rather than cut short.
WholeUnlessShrunk ==
    readPc = "returned" /\ ~shrunk => steady \subseteq ToSet(results)

\* "a partial read is refused rather than returned" (confluence.py:68), "a page seen
\* twice means the window shifted under the read [...] so a read whose distinct pages
\* end short of totalSize is refused" (confluence.py:202-205): a read that returns holds
\* every page that was in the space throughout.
WholeRead == readPc = "returned" => steady \subseteq ToSet(results)
=============================================================================
