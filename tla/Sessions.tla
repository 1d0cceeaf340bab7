------------------------------- MODULE Sessions -------------------------------
(***************************************************************************)
(* Tokens and nonces of the REST API: issue_token and logout               *)
(* (services/api/routes/auth.py), the denylist of revoked tokens           *)
(* (services/api/jwt_denylist.py, read by every jwt_required through the   *)
(* loader in extensions.py), and the nonces that open an alert stream      *)
(* (services/api/sse_nonce.py, subscribe and stream_alerts in              *)
(* routes/alerts.py).                                                      *)
(*                                                                         *)
(* The API runs as synchronous gunicorn workers (infra/docker/             *)
(* api.Dockerfile): a process has one request in hand, and an open stream  *)
(* keeps its process.  Denylist and nonces are keys in Redis that expire;  *)
(* every call to Redis may raise, applied or not.  Time is counted in      *)
(* ticks, Second of them to the second in which expiries are expressed.    *)
(***************************************************************************)
EXTENDS Naturals, FiniteSets

CONSTANTS
    Procs,      \* gunicorn worker processes (2)
    Tokens,     \* jti of the tokens that may be issued
    Nonces,     \* nonces that may be minted
    Second,     \* ticks in a second
    TokenLife,  \* _ACCESS_TOKEN_EXPIRES (8 h), in ticks
    NonceTtl,   \* NONCE_TTL_SECONDS (30), in ticks
    MaxTime,    \* bound: the clock
    MaxFaults   \* bound: failing calls to Redis

ASSUME ConstantsOK ==
    /\ IsFiniteSet(Procs) /\ IsFiniteSet(Tokens) /\ IsFiniteSet(Nonces)
    /\ Second \in Nat \ {0}
    /\ TokenLife \in Nat
    /\ NonceTtl \in Nat \ {0}
    /\ MaxTime \in Nat
    /\ MaxFaults \in Nat

VARIABLES
    clock,        \* the servers' clock, starting at 1
    exp,          \* the exp claim of each token; 0 before it is issued
    denied,       \* when jwt_denylist:<jti> expires; 0 if it was never set
    stored,       \* when sse_nonce:<nonce> expires; 0 if it is not there
    memory,       \* _MEMORY_STORE of each process
    at,           \* where the request of each process is, or its answer
    kind,         \* what it is: "token" and "nonce" open a stream
    credential,   \* the token or the nonce it came with
    faults,       \* failed calls so far
    born,         \* history: when each nonce was answered; 0 if it was not
    loggedOut,    \* history: tokens whose logout was answered 200
    streams,      \* history: streams opened with each nonce
    tokenFaults,  \* history: failed calls about each token
    nonceFaults   \* history: failed calls about each nonce

tokenVars == <<exp, denied, loggedOut, tokenFaults>>
nonceVars == <<stored, memory, born, streams, nonceFaults>>
vars == <<clock, at, kind, credential, faults, tokenVars, nonceVars>>

\* A process that has answered, 401 or otherwise, takes the next request.
Free == {"idle", "401"}
Kinds == {"none", "logout", "subscribe", "token", "nonce"}

TypeOK ==
    /\ clock \in Nat \ {0}
    /\ exp \in [Tokens -> Nat]
    /\ denied \in [Tokens -> Nat]
    /\ stored \in [Nonces -> Nat]
    /\ memory \in [Procs -> SUBSET Nonces]
    /\ at \in [Procs -> Free \cup {"verify", "revoke", "issue", "getdel",
                                      "get", "del", "streaming"}]
    /\ kind \in [Procs -> Kinds]
    /\ credential \in [Procs -> Tokens \cup Nonces \cup {"none"}]
    /\ \A p \in Procs :
          /\ at[p] \in {"verify", "revoke", "issue"} =>
                 credential[p] \in Tokens
          /\ at[p] \in {"getdel", "get", "del"} => credential[p] \in Nonces
    /\ faults \in Nat
    /\ born \in [Nonces -> Nat]
    /\ loggedOut \subseteq Tokens
    /\ streams \in [Nonces -> Nat]
    /\ tokenFaults \in [Tokens -> Nat]
    /\ nonceFaults \in [Nonces -> Nat]

Init ==
    /\ clock = 1
    /\ exp = [t \in Tokens |-> 0]
    /\ denied = [t \in Tokens |-> 0]
    /\ stored = [n \in Nonces |-> 0]
    /\ memory = [p \in Procs |-> {}]
    /\ at = [p \in Procs |-> "idle"]
    /\ kind = [p \in Procs |-> "none"]
    /\ credential = [p \in Procs |-> "none"]
    /\ faults = 0
    /\ born = [n \in Nonces |-> 0]
    /\ loggedOut = {}
    /\ streams = [n \in Nonces |-> 0]
    /\ tokenFaults = [t \in Tokens |-> 0]
    /\ nonceFaults = [n \in Nonces |-> 0]

-----------------------------------------------------------------------------
Goto(p, l) == at' = [at EXCEPT ![p] = l]

\* The request is over and the process forgets it.
Finish(p) ==
    /\ Goto(p, "idle")
    /\ kind' = [kind EXCEPT ![p] = "none"]
    /\ credential' = [credential EXCEPT ![p] = "none"]

Fault ==
    /\ faults < MaxFaults
    /\ faults' = faults + 1

TokenFault(t) ==
    /\ Fault
    /\ tokenFaults' = [tokenFaults EXCEPT ![t] = @ + 1]

NonceFault(n) ==
    /\ Fault
    /\ nonceFaults' = [nonceFaults EXCEPT ![n] = @ + 1]

\* A key is there until it expires.
Denied(t) == clock < denied[t]
Stored(n) == clock < stored[n]

\* PyJWT refuses a token from the second of its exp claim on.
Expired(t) == clock >= exp[t]

-----------------------------------------------------------------------------
(* Tokens *)

\* issue_token: the exp claim is a whole second.
IssueToken(t) ==
    /\ exp[t] = 0
    /\ exp' = [exp EXCEPT ![t] = ((clock + TokenLife) \div Second) * Second]
    /\ UNCHANGED <<clock, at, kind, credential, faults, denied, loggedOut,
                   tokenFaults, nonceVars>>

\* Bound: a nonce is left for every subscribe under way.
NonceLeft ==
    Cardinality({p \in Procs : kind[p] = "subscribe"
                                   /\ at[p] \in {"verify", "issue"}})
        < Cardinality({n \in Nonces : born[n] = 0})

\* A request with a token: logout, subscribe, or the stream with
\* ?access_token=.
Request(p, k, t) ==
    /\ at[p] \in Free
    /\ exp[t] # 0
    /\ k = "subscribe" => NonceLeft
    /\ Goto(p, "verify")
    /\ kind' = [kind EXCEPT ![p] = k]
    /\ credential' = [credential EXCEPT ![p] = t]
    /\ UNCHANGED <<clock, faults, tokenVars, nonceVars>>

\* Where the handler goes on once jwt_required has let it through.
Handler(k) ==
    CASE k = "logout" -> "revoke"
      [] k = "subscribe" -> "issue"
      [] OTHER -> "streaming"

\* verify_jwt_in_request: neither expired nor on the denylist.
Verify(p) ==
    LET t == credential[p] IN
    /\ at[p] = "verify"
    /\ Goto(p, IF Expired(t) \/ Denied(t) THEN "401" ELSE Handler(kind[p]))
    /\ UNCHANGED <<clock, kind, credential, faults, tokenVars, nonceVars>>

\* Mutant of VerifyRaises: a token that cannot be looked up is let through.
VerifyFailsOpen(p) ==
    LET t == credential[p] IN
    /\ at[p] = "verify"
    /\ ~Expired(t)
    /\ TokenFault(t)
    /\ Goto(p, Handler(kind[p]))
    /\ UNCHANGED <<clock, kind, credential, exp, denied, loggedOut,
                   nonceVars>>

\* is_token_revoked fails closed.
VerifyRaises(p) ==
    LET t == credential[p] IN
    /\ at[p] = "verify"
    /\ ~Expired(t)
    /\ TokenFault(t)
    /\ Goto(p, "401")
    /\ UNCHANGED <<clock, kind, credential, exp, denied, loggedOut,
                   nonceVars>>

\* The TTL of revoke_token: whole seconds until exp, rounded down, at least
\* one.
Ttl(t) ==
    LET left == IF exp[t] > clock THEN exp[t] - clock ELSE 0
    IN  IF left < Second THEN Second ELSE (left \div Second) * Second

\* revoke_token, and the answer of logout.
Revoke(p) ==
    LET t == credential[p] IN
    /\ at[p] = "revoke"
    /\ denied' = [denied EXCEPT ![t] = clock + Ttl(t)]
    /\ loggedOut' = loggedOut \cup {t}
    /\ Finish(p)
    /\ UNCHANGED <<clock, faults, exp, tokenFaults, nonceVars>>

\* It raises, and so does logout; the key may be set all the same.
RevokeRaises(p) ==
    LET t == credential[p] IN
    /\ at[p] = "revoke"
    /\ TokenFault(t)
    /\ \/ UNCHANGED denied
       \/ denied' = [denied EXCEPT ![t] = clock + Ttl(t)]
    /\ Finish(p)
    /\ UNCHANGED <<clock, exp, loggedOut, nonceVars>>

-----------------------------------------------------------------------------
(* Nonces *)

\* Mutant of IssueNonce: the nonce is kept in the process, never in Redis.
IssueNonceInMemory(p, n) ==
    /\ at[p] = "issue"
    /\ born[n] = 0
    /\ born' = [born EXCEPT ![n] = clock]
    /\ memory' = [memory EXCEPT ![p] = @ \cup {n}]
    /\ Finish(p)
    /\ UNCHANGED <<clock, faults, tokenVars, stored, streams, nonceFaults>>

\* issue_nonce: SET with a TTL; subscribe answers with the nonce.
IssueNonce(p, n) ==
    /\ at[p] = "issue"
    /\ born[n] = 0
    /\ born' = [born EXCEPT ![n] = clock]
    /\ stored' = [stored EXCEPT ![n] = clock + NonceTtl]
    /\ Finish(p)
    /\ UNCHANGED <<clock, faults, tokenVars, memory, streams, nonceFaults>>

\* SET raises: the process keeps the nonce itself, and answers the same.
IssueNonceRaises(p, n) ==
    /\ at[p] = "issue"
    /\ born[n] = 0
    /\ born' = [born EXCEPT ![n] = clock]
    /\ NonceFault(n)
    /\ \/ UNCHANGED stored
       \/ stored' = [stored EXCEPT ![n] = clock + NonceTtl]
    /\ memory' = [memory EXCEPT ![p] = @ \cup {n}]
    /\ Finish(p)
    /\ UNCHANGED <<clock, tokenVars, streams>>

\* GET /alerts/stream?nonce=, the first time or when EventSource reconnects.
Open(p, n) ==
    /\ at[p] \in Free
    /\ born[n] # 0
    /\ Goto(p, "getdel")
    /\ kind' = [kind EXCEPT ![p] = "nonce"]
    /\ credential' = [credential EXCEPT ![p] = n]
    /\ UNCHANGED <<clock, faults, tokenVars, nonceVars>>

\* The nonce is good: the stream opens.
Accept(p, n) ==
    /\ streams' = [streams EXCEPT ![n] = @ + 1]
    /\ Goto(p, "streaming")

\* Mutant of Pop: dict.get for dict.pop.
PopAndKeep(p, n) ==
    /\ IF n \in memory[p] THEN Accept(p, n)
       ELSE Goto(p, "401") /\ UNCHANGED streams
    /\ UNCHANGED memory

\* _MEMORY_STORE.pop(nonce, None), when Redis had no answer.
Pop(p, n) ==
    /\ IF n \in memory[p] THEN Accept(p, n)
       ELSE Goto(p, "401") /\ UNCHANGED streams
    /\ memory' = [memory EXCEPT ![p] = @ \ {n}]

\* GETDEL: reads the key and removes it.
GetDel(p) ==
    LET n == credential[p] IN
    /\ at[p] = "getdel"
    /\ stored' = [stored EXCEPT ![n] = 0]
    /\ IF Stored(n) THEN Accept(p, n) /\ UNCHANGED memory ELSE Pop(p, n)
    /\ UNCHANGED <<clock, kind, credential, faults, tokenVars, born,
                   nonceFaults>>

\* It raises: consume_nonce goes on with a GET.
GetDelRaises(p) ==
    LET n == credential[p] IN
    /\ at[p] = "getdel"
    /\ NonceFault(n)
    /\ \/ UNCHANGED stored
       \/ stored' = [stored EXCEPT ![n] = 0]
    /\ Goto(p, "get")
    /\ UNCHANGED <<clock, kind, credential, tokenVars, memory, born,
                   streams>>

Get(p) ==
    LET n == credential[p] IN
    /\ at[p] = "get"
    /\ IF Stored(n) THEN Goto(p, "del") /\ UNCHANGED <<memory, streams>>
       ELSE Pop(p, n)
    /\ UNCHANGED <<clock, kind, credential, faults, tokenVars, stored, born,
                   nonceFaults>>

\* DEL, and the nonce is good whether or not it was still there.
Del(p) ==
    LET n == credential[p] IN
    /\ at[p] = "del"
    /\ stored' = [stored EXCEPT ![n] = 0]
    /\ Accept(p, n)
    /\ UNCHANGED <<clock, kind, credential, faults, tokenVars, memory, born,
                   nonceFaults>>

\* The GET or the DEL raises too: what the process itself keeps decides.
FallbackRaises(p) ==
    LET n == credential[p] IN
    /\ at[p] \in {"get", "del"}
    /\ NonceFault(n)
    /\ \/ UNCHANGED stored
       \/ at[p] = "del" /\ stored' = [stored EXCEPT ![n] = 0]
    /\ Pop(p, n)
    /\ UNCHANGED <<clock, kind, credential, tokenVars, born>>

-----------------------------------------------------------------------------
(* Processes and time *)

\* The browser closes the stream.
Close(p) ==
    /\ at[p] = "streaming"
    /\ Finish(p)
    /\ UNCHANGED <<clock, faults, tokenVars, nonceVars>>

\* Mutant of Timeout: an open stream counts as activity.
TimeoutUnlessStreaming(p) ==
    /\ at[p] \notin Free \cup {"streaming"}
    /\ Finish(p)
    /\ memory' = [memory EXCEPT ![p] = {}]
    /\ UNCHANGED <<clock, faults, tokenVars, stored, born, streams,
                   nonceFaults>>

\* gunicorn kills a process that has been busy for its timeout (60 s), as an
\* open stream is, and starts another one; its memory store is empty.
Timeout(p) ==
    /\ at[p] = "streaming"
    /\ Finish(p)
    /\ memory' = [memory EXCEPT ![p] = {}]
    /\ UNCHANGED <<clock, faults, tokenVars, stored, born, streams,
                   nonceFaults>>

Tick ==
    /\ clock < MaxTime
    /\ clock' = clock + 1
    /\ UNCHANGED <<at, kind, credential, faults, tokenVars, nonceVars>>

\* The request of a process goes on.
Handle(p) ==
    \/ Verify(p) \/ VerifyRaises(p) \/ Revoke(p) \/ RevokeRaises(p)
    \/ GetDel(p) \/ GetDelRaises(p) \/ Get(p) \/ Del(p) \/ FallbackRaises(p)
    \/ \E n \in Nonces : IssueNonce(p, n) \/ IssueNonceRaises(p, n)

Arrive(p) ==
    \/ \E t \in Tokens, k \in {"logout", "subscribe", "token"} :
          Request(p, k, t)
    \/ \E n \in Nonces : Open(p, n)

Next ==
    \/ \E t \in Tokens : IssueToken(t)
    \/ \E p \in Procs : Arrive(p) \/ Handle(p) \/ Close(p) \/ Timeout(p)
    \/ Tick

Spec == Init /\ [][Next]_vars

\* Processes run and gunicorn watches them; clients need not come or close.
FairSpec ==
    /\ Spec
    /\ \A p \in Procs : WF_vars(Handle(p)) /\ WF_vars(Timeout(p))

-----------------------------------------------------------------------------
\* A nonce opens one stream, within its 30 seconds, and every exception is
\* paid for by a failed call about it: the fallback's GET and DEL, the two
\* places a nonce can be kept in and the requests that race for it add
\* nothing else.
NonceOpensOneStreamInTime ==
    [][\A n \in Nonces :
          streams'[n] # streams[n] =>
              /\ streams'[n] <= 1 + nonceFaults'[n]
              /\ clock < born[n] + NonceTtl \/ nonceFaults'[n] > 0]_vars

\* A request is refused for a reason its client can know of: an expired or
\* used nonce, an expired or revoked token, or a failed call.
RefusalHasACause ==
    \A p \in Procs : at[p] = "401" =>
        LET c == credential[p] IN
        IF kind[p] = "nonce"
        THEN \/ clock >= born[c] + NonceTtl
             \/ streams[c] > 0
             \/ nonceFaults[c] > 0
        ELSE Expired(c) \/ c \in loggedOut \/ tokenFaults[c] > 0

\* jwt_required lets the request of p through.
LetThrough(p) ==
    at[p] = "verify" /\ at'[p] \in {"revoke", "issue", "streaming"}

\* Once a logout is answered 200 the token is refused, whatever fails, up to
\* the rounding of the TTL: for all but the last second of its life.
RevokedUntilTheLastSecond ==
    [][\A p \in Procs :
          LetThrough(p) /\ credential[p] \in loggedOut =>
              exp[credential[p]] < clock + Second]_vars

\* The docstring of logout: "Revoke the current JWT until its natural
\* expiry."
RevokedUntilExpiry ==
    [][\A p \in Procs : LetThrough(p) => credential[p] \notin loggedOut]_vars

\* A process is free again after every request, open streams included, so
\* that streams that are never closed cannot hold the API for good.
ProcessesComeBack == \A p \in Procs : at[p] \notin Free ~> at[p] \in Free
=============================================================================
