------------------------------ MODULE StreamedSql -------------------------------
(***************************************************************************)
(* How Orchestrator.handle_question splits a streamed reply: what precedes *)
(* the opening tag is shown as it arrives, what stands between the tags is *)
(* the statement and is never shown.  Tokens end anywhere, also inside a   *)
(* tag, so the last characters that could begin one are held back.         *)
(*                                                                         *)
(* A reply is a sequence of symbols, and a tag the two symbols that begin  *)
(* it: "<sql>" is <<"<", "s">> and "</sql>" is <<"<", "/">>.  The newline  *)
(* that may follow a tag, and the fallback's search for a fenced or bare   *)
(* statement, are left out: without tags the statement is the whole reply. *)
(***************************************************************************)
EXTENDS Integers, Sequences, SequencesExt

CONSTANTS Symbols,   \* the symbols of a reply, those of the tags among them
          MaxReply   \* the length of the longest reply

ASSUME StreamAssumption == {"<", "s", "/"} \subseteq Symbols /\ MaxReply \in Nat

VARIABLES text,      \* the reply
          spent,     \* it stopped at the output budget
          received,        \* the symbols received so far
          pending,   \* pending
          sqlBuf,    \* sql_buf
          inSql,     \* in_sql
          foundSql,  \* found_sql
          shown,     \* what was yielded
          verdict    \* cut_off, once the stream has ended

streamVars == <<text, spent, received, pending, sqlBuf, inSql, foundSql, shown, verdict>>

OpenTag == <<"<", "s">>
CloseTag == <<"<", "/">>
HoldNothing == 0
Hold == Len(OpenTag) - 1

\* Where a tag begins in s, and 0 where there is none, as str.find has it.
Find(s, tag) ==
    LET places == {i \in 1 .. Len(s) - 1 : SubSeq(s, i, i + 1) = tag} IN
    IF places = {} THEN 0 ELSE CHOOSE i \in places : \A j \in places : i <= j

Before(s, i) == SubSeq(s, 1, i - 1)
After(s, i) == SubSeq(s, i + 2, Len(s))

StreamTypeOK ==
    /\ text \in BoundedSeq(Symbols, MaxReply) /\ received \in 0 .. Len(text)
    /\ pending \in BoundedSeq(Symbols, MaxReply) /\ sqlBuf \in BoundedSeq(Symbols, MaxReply)
    /\ shown \in BoundedSeq(Symbols, MaxReply)
    /\ {spent, inSql, foundSql} \subseteq BOOLEAN
    /\ verdict \in {"streaming", "whole", "cut off"}

StreamInit ==
    /\ text \in BoundedSeq(Symbols, MaxReply) /\ spent \in BOOLEAN /\ received = 0
    /\ pending = <<>> /\ sqlBuf = <<>> /\ shown = <<>>
    /\ inSql = FALSE /\ foundSql = FALSE
    /\ verdict = "streaming"

\* A token inside the statement: nothing is shown, not even what follows the
\* closing tag in the same token.
InStatement(token) ==
    /\ inSql
    /\ LET buf == sqlBuf \o token
           close == Find(buf, CloseTag) IN
       /\ sqlBuf' = IF close = 0 THEN buf ELSE Before(buf, close)
       /\ inSql' = (close = 0)
       /\ foundSql' = (foundSql \/ close # 0)
    /\ UNCHANGED <<pending, shown>>

\* A token with which the opening tag is complete.
OpensStatement(token) ==
    LET buf == pending \o token
        open == Find(buf, OpenTag)
        rest == After(buf, open)
        close == Find(rest, CloseTag) IN
    /\ ~inSql /\ open # 0
    /\ shown' = shown \o Before(buf, open)
    /\ sqlBuf' = IF close = 0 THEN rest ELSE Before(rest, close)
    /\ inSql' = (close = 0)
    /\ foundSql' = (foundSql \/ close # 0)
    /\ pending' = <<>>

\* Prose: all but the held-back symbols is shown.
InProse(token) ==
    LET buf == pending \o token
        safe == IF Len(buf) > Hold THEN Len(buf) - Hold ELSE 0 IN
    /\ ~inSql /\ Find(buf, OpenTag) = 0
    /\ shown' = shown \o SubSeq(buf, 1, safe)
    /\ pending' = SubSeq(buf, safe + 1, Len(buf))
    /\ UNCHANGED <<sqlBuf, inSql, foundSql>>

Token(n) ==
    /\ verdict = "streaming"
    /\ received + n <= Len(text)
    /\ received' = received + n
    /\ LET token == SubSeq(text, received + 1, received + n) IN
       InStatement(token) \/ OpensStatement(token) \/ InProse(token)
    /\ UNCHANGED <<text, spent, verdict>>

\* _extract_sql, on the whole reply.
ExtractedWhole(s) ==
    LET open == Find(s, OpenTag)
        rest == After(s, open)
        close == Find(rest, CloseTag) IN
    IF open # 0 /\ close # 0 THEN Before(rest, close) ELSE s

StreamEnds ==
    /\ verdict = "streaming" /\ received = Len(text)
    /\ shown' = IF inSql THEN shown ELSE shown \o pending
    /\ sqlBuf' = IF foundSql THEN sqlBuf ELSE ExtractedWhole(text)
    /\ verdict' = IF spent /\ ~foundSql THEN "cut off" ELSE "whole"
    /\ UNCHANGED <<text, spent, received, pending, inSql, foundSql>>

StreamNext == (\E n \in 1 .. MaxReply : Token(n)) \/ StreamEnds
StreamSpec == StreamInit /\ [][StreamNext]_streamVars

Opening == Find(text, OpenTag)
Closing == Find(After(text, Opening), CloseTag)
OneBlock == Opening # 0 /\ Closing # 0 /\ Find(After(After(text, Opening), Closing), OpenTag) = 0

\* SAFETY. Whatever the tokens, what is shown before the statement is exactly
\* what precedes it, and a reply with one statement yields that statement, none
\* of it shown.
SplitAsWritten ==
    /\ IsPrefix(shown, text) \/ (Opening # 0 /\ IsPrefix(Before(text, Opening), shown))
    /\ verdict # "streaming" /\ OneBlock =>
          sqlBuf = Before(After(text, Opening), Closing)
    /\ verdict # "streaming" /\ Opening # 0 /\ Closing = 0 => shown = Before(text, Opening)

\* CLAIM, violated. "Cut off after </sql>, the statement is whole"
\* (orchestrator.py:571): a statement taken for whole is one whose closing tag
\* arrived.
TakenWholeIsClosed == verdict = "whole" /\ spent => ~inSql
=============================================================================
