------------------------------ MODULE JwksKeys ------------------------------
(***************************************************************************)
(* The signing keys an OIDC token is verified with (OidcTokenVerifier of   *)
(* auth/oidc_token.py), as the worker threads of the MCP server use them   *)
(* (OidcAccessTokenVerifier.verify_token of auth/mcp_verifier.py).  The    *)
(* threads share one cache of the provider's keys, one fetch lock, and two *)
(* clocks that space the fetches.  The provider publishes keys, withdraws  *)
(* them, and may fail to answer.                                           *)
(*                                                                         *)
(* Times are ages, which JwksTick moves: a fetch takes up to FetchTime,    *)
(* and a thread may wait for it; a thread's other steps take no time on    *)
(* this scale, though they interleave.  FetchTime is not http_timeout,     *)
(* which limits each operation on the network and not the fetch that is    *)
(* made of them: it is any bound that the fetches do keep, and what is     *)
(* said of a withdrawn key is said in terms of it.                         *)
(***************************************************************************)
EXTENDS Naturals, FiniteSets

CONSTANTS
    Verifiers,   \* worker threads that verify tokens
    Kids,        \* key ids
    NoVerifier,  \* the holder of a free fetch lock
    NoToken,
    FetchTime,   \* how long a fetch lasts at most
    Interval,    \* _FORCED_REFRESH_INTERVAL
    MaxAge,      \* _JWKS_MAX_AGE
    MaxStale,    \* _JWKS_MAX_STALE
    Rotations    \* bound on the changes of the provider's key set

\* A header's key id, and whether the rest of the token holds up (signature,
\* expiry, audience, authorized party, issuer, subject).
Token == [kid : Kids, holds : BOOLEAN]

ASSUME JwksNullAssumption == NoVerifier \notin Verifiers /\ NoToken \notin Token
ASSUME JwksTimeAssumption ==
    /\ FetchTime \in Nat /\ Interval \in Nat \ {0}
    /\ MaxAge \in Nat /\ MaxStale \in Nat /\ MaxAge <= MaxStale
    /\ Interval <= MaxAge
    /\ Rotations \in Nat

VARIABLES
    published, \* the provider's keys
    rotations, \* how often it has changed them
    since,     \* history: how long ago each key was last published or withdrawn
    cached,    \* _jwks_cache["keys"], {} before the first fetch
    cacheAge,  \* the time since _jwks_cache["fetched_at"]
    retryIn,   \* the time until _retry_after
    forcedIn,  \* the time until _last_forced_refresh is an interval ago
    lock,      \* the holder of _fetch_lock
    fetchAge,  \* how long the lock has been held
    jwkPc,     \* where each thread is in verify
    token,     \* the token it verifies
    mode,      \* the refresh it needs: "scheduled", with keys it can go on with;
               \* "needed", with none; "forced", for an unknown key id
    reply,     \* the keys in the provider's answer to it
    asked,     \* history: how long ago the last three fetches began, up to an interval
    failedIn   \* history: the time until the last failed fetch is an interval ago

Fetches == 1..3   \* the last, the one before, and the one before that

provider == <<published, rotations, since>>
clocks == <<cacheAge, retryIn, forcedIn>>
locals == <<jwkPc, token, mode, reply>>
keyHistory == <<asked, failedIn>>
jwkVars == <<provider, cached, clocks, lock, fetchAge, locals, keyHistory>>

\* Ages past the horizon are alike: every limit has passed.
Horizon == MaxStale + 2 * FetchTime + Interval + 1
Older(age) == IF age < Horizon THEN age + 1 ELSE age
Left(time) == IF time > 0 THEN time - 1 ELSE 0

JwksInit ==
    /\ published \in SUBSET Kids
    /\ rotations = 0
    /\ since = [k \in Kids |-> Horizon]
    /\ cached = {} /\ cacheAge = Horizon
    /\ retryIn = 0 /\ forcedIn = 0
    /\ lock = NoVerifier /\ fetchAge = 0
    /\ jwkPc = [t \in Verifiers |-> "refused"]
    /\ token = [t \in Verifiers |-> NoToken]
    /\ mode = [t \in Verifiers |-> "scheduled"]
    /\ reply = [t \in Verifiers |-> {}]
    /\ asked = [i \in Fetches |-> Interval] /\ failedIn = 0

----------------------------------------------------------------------------
(* The provider and the clock.                                             *)

Rotate(S) ==
    /\ rotations < Rotations
    /\ S # published
    /\ published' = S
    /\ rotations' = rotations + 1
    /\ since' = [k \in Kids |-> IF (k \in S) = (k \in published) THEN since[k] ELSE 0]
    /\ UNCHANGED <<cached, clocks, lock, fetchAge, locals, keyHistory>>

\* A thread that lets time pass: between two tokens, waiting for the lock
\* another holds because it has no usable keys, or on the network.
Waits(t) ==
    \/ jwkPc[t] \in {"accepted", "refused", "fetching", "replied"}
    \/ jwkPc[t] = "acquire" /\ mode[t] = "needed" /\ lock # NoVerifier

JwksTick ==
    /\ \A t \in Verifiers : Waits(t)
    /\ lock # NoVerifier => fetchAge < FetchTime
    /\ since' = [k \in Kids |-> Older(since[k])]
    /\ cacheAge' = Older(cacheAge)
    /\ retryIn' = Left(retryIn)
    /\ forcedIn' = Left(forcedIn)
    /\ fetchAge' = IF lock = NoVerifier THEN 0 ELSE fetchAge + 1
    /\ asked' = [i \in Fetches |-> IF asked[i] < Interval THEN asked[i] + 1 ELSE Interval]
    /\ failedIn' = Left(failedIn)
    /\ UNCHANGED <<published, rotations, cached, lock, locals>>

----------------------------------------------------------------------------
(* How a call of verify goes on.                                           *)

To(t, place) == jwkPc' = [jwkPc EXCEPT ![t] = place]

\* verify returns the claims, or raises; verify_token then answers with an
\* access token, or with None.
CallEnds(t, outcome) ==
    /\ To(t, outcome)
    /\ token' = [token EXCEPT ![t] = NoToken]
    /\ mode' = [mode EXCEPT ![t] = "scheduled"]
    /\ reply' = [reply EXCEPT ![t] = {}]

\* What verify does with the keys it is given: the rest of the token is
\* checked with the key of its id; without one, a first look ends in a
\* refresh, a second in a refusal.
LooksIn(t, keySet) ==
    IF token[t].kid \in keySet
    THEN CallEnds(t, IF token[t].holds THEN "accepted" ELSE "refused")
    ELSE IF mode[t] = "forced"
    THEN CallEnds(t, "refused")
    ELSE /\ To(t, "unknown")
         /\ mode' = [mode EXCEPT ![t] = "forced"]
         /\ reply' = [reply EXCEPT ![t] = {}]
         /\ UNCHANGED token

Release == lock' = NoVerifier /\ fetchAge' = 0

----------------------------------------------------------------------------
(* _get_keys.                                                              *)

FreshKeys == cached # {} /\ cacheAge <= MaxAge

Usable == cached # {} /\ cacheAge <= MaxStale

Receive(t, tok) ==
    /\ jwkPc[t] \in {"accepted", "refused"}
    /\ To(t, "get")
    /\ token' = [token EXCEPT ![t] = tok]
    /\ UNCHANGED <<provider, cached, clocks, lock, fetchAge, mode, reply, keyHistory>>

\* Fresh keys, or during the pause after a failure those still usable; with
\* none the last failure is raised.
GetWithoutFetch(t) ==
    /\ jwkPc[t] = "get"
    /\ FreshKeys \/ retryIn > 0
    /\ IF Usable THEN LooksIn(t, cached) ELSE CallEnds(t, "refused")
    /\ UNCHANGED <<provider, cached, clocks, lock, fetchAge, keyHistory>>

GetByFetch(t) ==
    /\ jwkPc[t] = "get"
    /\ ~FreshKeys /\ retryIn = 0
    /\ To(t, "acquire")
    /\ mode' = [mode EXCEPT ![t] = IF Usable THEN "scheduled" ELSE "needed"]
    /\ UNCHANGED <<provider, cached, clocks, lock, fetchAge, token, reply, keyHistory>>

----------------------------------------------------------------------------
(* _refresh_for_unknown_kid, its first check.                              *)

ForcedLately(t) ==
    /\ jwkPc[t] = "unknown"
    /\ forcedIn > 0
    /\ LooksIn(t, cached)
    /\ UNCHANGED <<provider, cached, clocks, lock, fetchAge, keyHistory>>

MayForce(t) ==
    /\ jwkPc[t] = "unknown"
    /\ forcedIn = 0
    /\ To(t, "acquire")
    /\ UNCHANGED <<provider, cached, clocks, lock, fetchAge, token, mode, reply, keyHistory>>

----------------------------------------------------------------------------
(* The fetch lock, and what is checked again under it.                     *)

Acquire(t) ==
    /\ jwkPc[t] = "acquire"
    /\ lock = NoVerifier
    /\ lock' = t
    /\ To(t, "locked")
    /\ UNCHANGED <<provider, cached, clocks, fetchAge, token, mode, reply, keyHistory>>

\* A thread with keys does not wait for the lock; one with none waits for
\* _FETCH_WAIT_SECONDS, which a fetch may outlast.
AcquireFails(t) ==
    /\ jwkPc[t] = "acquire"
    /\ lock # NoVerifier
    /\ IF mode[t] = "needed" THEN CallEnds(t, "refused") ELSE LooksIn(t, cached)
    /\ UNCHANGED <<provider, cached, clocks, lock, fetchAge, keyHistory>>

\* Mutant of Settled: nothing is checked again under the lock.
NeverSettled(t) == FALSE

\* Another thread has fetched, or failed to, since this one's first check.
Settled(t) == IF mode[t] = "forced" THEN forcedIn > 0 ELSE FreshKeys \/ retryIn > 0

Recheck(t) ==
    /\ jwkPc[t] = "locked"
    /\ Settled(t)
    /\ IF mode[t] = "needed" /\ ~FreshKeys THEN CallEnds(t, "refused") ELSE LooksIn(t, cached)
    /\ Release
    /\ UNCHANGED <<provider, cached, clocks, keyHistory>>

\* A forced refresh marks its time before it fetches.
StartFetch(t) ==
    /\ jwkPc[t] = "locked"
    /\ ~Settled(t)
    /\ To(t, "fetching")
    /\ forcedIn' = IF mode[t] = "forced" THEN Interval ELSE forcedIn
    /\ asked' = [i \in Fetches |-> IF i = 1 THEN 0 ELSE asked[i - 1]]
    /\ UNCHANGED <<provider, cached, cacheAge, retryIn, lock, fetchAge, token, mode, reply, failedIn>>

----------------------------------------------------------------------------
(* _fetch_jwks.                                                            *)

\* The provider answers: changes from here on are not in its reply. A reply
\* without keys is a failed fetch.
Reply(t) ==
    /\ jwkPc[t] = "fetching"
    /\ published # {}
    /\ To(t, "replied")
    /\ reply' = [reply EXCEPT ![t] = published]
    /\ UNCHANGED <<provider, cached, clocks, lock, fetchAge, token, mode, keyHistory>>

Store(t) ==
    /\ jwkPc[t] = "replied"
    /\ cached' = reply[t]
    /\ cacheAge' = 0
    /\ LooksIn(t, reply[t])
    /\ Release
    /\ UNCHANGED <<provider, retryIn, forcedIn, keyHistory>>

\* Mutant of Pause: the pause after a failure is as long as keys stay fresh.
PauseTooLong == MaxAge

\* The pause after a failed fetch.
Pause == Interval

\* A scheduled refresh goes on with the keys it has and is not tried again
\* during the pause; the failure of another is raised, and of a forced one
\* starts no pause.
FetchFails(t) ==
    /\ jwkPc[t] \in {"fetching", "replied"}
    /\ retryIn' = IF mode[t] = "forced" THEN retryIn ELSE Pause
    /\ IF mode[t] = "scheduled" THEN LooksIn(t, cached) ELSE CallEnds(t, "refused")
    /\ Release
    /\ failedIn' = Interval
    /\ UNCHANGED <<provider, cached, cacheAge, forcedIn, asked>>

VerifierStep(t) ==
    \/ \E tok \in Token : Receive(t, tok)
    \/ GetWithoutFetch(t) \/ GetByFetch(t)
    \/ ForcedLately(t) \/ MayForce(t)
    \/ Acquire(t) \/ AcquireFails(t) \/ Recheck(t)
    \/ StartFetch(t) \/ Reply(t) \/ Store(t) \/ FetchFails(t)

JwksNext ==
    \/ JwksTick
    \/ \E S \in SUBSET Kids : Rotate(S)
    \/ \E t \in Verifiers : VerifierStep(t)

JwksSpec == JwksInit /\ [][JwksNext]_jwkVars

----------------------------------------------------------------------------
(* Properties.                                                             *)

\* The types of the variables; the lock is held from its acquisition to the
\* end of the fetch.
JwksTypeOK ==
    /\ published \in SUBSET Kids /\ rotations \in 0..Rotations
    /\ since \in [Kids -> 0..Horizon]
    /\ cached \in SUBSET Kids /\ cacheAge \in 0..Horizon
    /\ retryIn \in Nat /\ forcedIn \in 0..Interval
    /\ lock \in Verifiers \cup {NoVerifier} /\ fetchAge \in 0..FetchTime
    /\ jwkPc \in [Verifiers -> {"accepted", "refused", "get", "unknown", "acquire",
                               "locked", "fetching", "replied"}]
    /\ token \in [Verifiers -> Token \cup {NoToken}]
    /\ mode \in [Verifiers -> {"scheduled", "needed", "forced"}]
    /\ reply \in [Verifiers -> SUBSET Kids]
    /\ asked \in [Fetches -> 0..Interval] /\ failedIn \in 0..Interval

Accepts(t) == jwkPc[t] # "accepted" /\ jwkPc'[t] = "accepted"
Refuses(t) == jwkPc[t] # "refused" /\ jwkPc'[t] = "refused"

\* A key the provider has withdrawn is not accepted for longer than
\* _JWKS_MAX_STALE and two fetches (one whose reply still held it, one that
\* failed while a request with usable keys held the lock), however often the
\* provider fails and whichever thread refreshes.
WithdrawnKeyExpires ==
    [][\A t \in Verifiers : Accepts(t) /\ token[t].kid \notin published
           => since[token[t].kid] <= MaxStale + 2 * FetchTime]_jwkVars

\* A rotation is picked up within one interval (the comment on
\* _FORCED_REFRESH_INTERVAL): a good token, of a key published at least an
\* interval ago, is refused only while a fetch is in flight or
\* within an interval of one that failed.
RotationPickedUp ==
    [][\A t \in Verifiers :
           /\ Refuses(t) /\ token[t].holds
           /\ token[t].kid \in published /\ since[token[t].kid] >= Interval
           => lock # NoVerifier \/ failedIn > 0]_jwkVars

\* Whoever sends tokens, and whatever their key ids, the provider is asked at
\* most twice in any interval: once for an unknown key id and once because the
\* keys are stale (_get_keys and _refresh_for_unknown_kid, which check under
\* the lock what they checked before it).
ProviderSpared == asked[3] = Interval
=============================================================================
