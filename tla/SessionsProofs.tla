---------------------------- MODULE SessionsProofs ----------------------------
(***************************************************************************)
(* What holds of the sessions of the API for any number of processes,      *)
(* tokens, nonces and failed calls to Redis.                               *)
(*                                                                         *)
(* That a nonce opens one stream is a ledger: every place that may still   *)
(* open a stream with it (its key in Redis, the memory of a process, a     *)
(* request past its GETDEL) and every stream it has opened is a charge,    *)
(* and the nonce itself and each failed call pay for one.  No action adds  *)
(* a charge unpaid: a failed SET or GETDEL adds a place and a fault, and   *)
(* every accepted request moves one place to the streams.                  *)
(***************************************************************************)
EXTENDS Sessions, FiniteSetTheorems, TLAPS

\* The processes that keep n in their memory store.
Holders(n) == {p \in Procs : n \in memory[p]}
\* The requests with n between the GET and the DEL of the fallback.
Getters(n) == {p \in Procs : at[p] \in {"get", "del"} /\ credential[p] = n}

\* The key in Redis, as a number.
Left(n) == IF stored[n] = 0 THEN 0 ELSE 1

\* Every place that may still open a stream with n, and every stream it has
\* opened, is paid for.
Ledger(n) ==
    streams[n] + Left(n) + Cardinality(Holders(n)) + Cardinality(Getters(n))
        <= 1 + nonceFaults[n]

\* A nonce no call failed for is only in Redis, until it is used or expires.
NonceOK(n) ==
    /\ born[n] = 0 => /\ stored[n] = 0 /\ streams[n] = 0
                      /\ Holders(n) = {} /\ Getters(n) = {}
    /\ nonceFaults[n] = 0 =>
           /\ Holders(n) = {} /\ Getters(n) = {}
           /\ born[n] # 0 =>
                  \/ stored[n] = born[n] + NonceTtl
                  \/ /\ stored[n] = 0
                     /\ streams[n] > 0 \/ clock >= born[n] + NonceTtl
    /\ Ledger(n)

\* A request came with a token or a nonce that was given out.
RequestOK(p) ==
    /\ at[p] \in {"verify", "revoke", "issue"} =>
           /\ kind[p] \in {"logout", "subscribe", "token"}
           /\ exp[credential[p]] # 0
    /\ at[p] \in {"getdel", "get", "del"} =>
           kind[p] = "nonce" /\ born[credential[p]] # 0
    /\ at[p] = "401" =>
           IF kind[p] = "nonce"
           THEN credential[p] \in Nonces /\ born[credential[p]] # 0
           ELSE credential[p] \in Tokens /\ exp[credential[p]] # 0

\* The key of the denylist outlives the token but for its last second, and
\* is there for a reason.
TokenOK(t) ==
    /\ denied[t] # 0 => /\ exp[t] # 0
                        /\ exp[t] < denied[t] + Second
                        /\ t \in loggedOut \/ tokenFaults[t] > 0
    /\ t \in loggedOut => denied[t] # 0

\* Rounding down to a multiple loses less than one.
LEMMA Rounding ==
  ASSUME NEW a \in Nat, NEW b \in Nat \ {0}
  PROVE  /\ a \div b \in Nat
         /\ (a \div b) * b \in Nat
         /\ a < (a \div b) * b + b
<1>1. a \div b \in Nat
  OBVIOUS
<1>2. (a \div b) * b \in Nat
  BY <1>1
<1>3. a < (a \div b) * b + b
  OBVIOUS
<1> QED BY <1>1, <1>2, <1>3

\* The TTL of a revocation reaches the last second of the token.
LEMMA TtlCovers ==
  ASSUME ConstantsOK, TypeOK, NEW t \in Tokens
  PROVE  /\ Ttl(t) \in Nat \ {0}
         /\ exp[t] < clock + Ttl(t) + Second
<1> DEFINE left == IF exp[t] > clock THEN exp[t] - clock ELSE 0
<1>1. clock \in Nat /\ exp[t] \in Nat /\ Second \in Nat \ {0}
  BY DEF ConstantsOK, TypeOK
<1>2. left \in Nat /\ exp[t] <= clock + left
  BY <1>1
<1>3. Ttl(t) = IF left < Second THEN Second ELSE (left \div Second) * Second
  BY DEF Ttl
<1> HIDE DEF left
<1>4. CASE left < Second
  BY <1>1, <1>2, <1>3, <1>4
<1>5. CASE ~(left < Second)
  <2> DEFINE q == (left \div Second) * Second
  <2>1. q \in Nat /\ left < q + Second
    BY <1>1, <1>2, Rounding
  <2>2. Ttl(t) = q
    BY <1>3, <1>5
  <2> HIDE DEF q
  <2> QED BY <1>1, <1>2, <1>5, <2>1, <2>2
<1> QED BY <1>4, <1>5

\* Every step of the API keeps the types of TypeOK.
LEMMA TypeStep ==
  ASSUME TypeOK, [Next]_vars
  PROVE  TypeOK'
<1> USE ConstantsOK DEF ConstantsOK
<1>1. ASSUME NEW t \in Tokens, IssueToken(t) PROVE TypeOK'
  <2>1. ((clock + TokenLife) \div Second) * Second \in Nat
    <3>1. clock + TokenLife \in Nat
      BY DEF TypeOK
    <3> QED BY <3>1, Rounding
  <2> QED BY <1>1, <2>1 DEF IssueToken, TypeOK, nonceVars
<1>2. ASSUME NEW p \in Procs, NEW t \in Tokens,
             NEW k \in {"logout", "subscribe", "token"}, Request(p, k, t)
      PROVE TypeOK'
  BY <1>2 DEF Request, Goto, TypeOK, Kinds, Free, tokenVars, nonceVars
<1>3. ASSUME NEW p \in Procs, Verify(p) PROVE TypeOK'
  BY <1>3 DEF Verify, Handler, Goto, TypeOK, Free, tokenVars, nonceVars
<1>4. ASSUME NEW p \in Procs, VerifyRaises(p) PROVE TypeOK'
  BY <1>4 DEF VerifyRaises, TokenFault, Fault, Goto, TypeOK, Free,
              nonceVars
<1>5. ASSUME NEW p \in Procs, Revoke(p) PROVE TypeOK'
  <2>1. credential[p] \in Tokens /\ Ttl(credential[p]) \in Nat
    BY <1>5, TtlCovers DEF Revoke, TypeOK
  <2> QED BY <1>5, <2>1 DEF Revoke, Finish, Goto, TypeOK, Kinds, Free,
                            nonceVars
<1>6. ASSUME NEW p \in Procs, RevokeRaises(p) PROVE TypeOK'
  <2>1. credential[p] \in Tokens /\ Ttl(credential[p]) \in Nat
    BY <1>6, TtlCovers DEF RevokeRaises, TypeOK
  <2> QED BY <1>6, <2>1 DEF RevokeRaises, TokenFault, Fault, Finish, Goto,
                            TypeOK, Kinds, Free, nonceVars
<1>7. ASSUME NEW p \in Procs, NEW n \in Nonces, IssueNonce(p, n)
      PROVE TypeOK'
  BY <1>7 DEF IssueNonce, Finish, Goto, TypeOK, Kinds, Free, tokenVars
<1>8. ASSUME NEW p \in Procs, NEW n \in Nonces, IssueNonceRaises(p, n)
      PROVE TypeOK'
  BY <1>8 DEF IssueNonceRaises, NonceFault, Fault, Finish, Goto, TypeOK,
              Kinds, Free, tokenVars
<1>9. ASSUME NEW p \in Procs, NEW n \in Nonces, Open(p, n) PROVE TypeOK'
  BY <1>9 DEF Open, Goto, TypeOK, Kinds, Free, tokenVars, nonceVars
<1>10. ASSUME NEW p \in Procs, GetDel(p) PROVE TypeOK'
  BY <1>10 DEF GetDel, Accept, Pop, Goto, TypeOK, Free, tokenVars
<1>11. ASSUME NEW p \in Procs, GetDelRaises(p) PROVE TypeOK'
  BY <1>11 DEF GetDelRaises, NonceFault, Fault, Goto, TypeOK, Free,
               tokenVars
<1>12. ASSUME NEW p \in Procs, Get(p) PROVE TypeOK'
  BY <1>12 DEF Get, Accept, Pop, Goto, TypeOK, Free, tokenVars
<1>13. ASSUME NEW p \in Procs, Del(p) PROVE TypeOK'
  BY <1>13 DEF Del, Accept, Goto, TypeOK, Free, tokenVars
<1>14. ASSUME NEW p \in Procs, FallbackRaises(p) PROVE TypeOK'
  BY <1>14 DEF FallbackRaises, NonceFault, Fault, Accept, Pop, Goto,
               TypeOK, Free, tokenVars
<1>15. ASSUME NEW p \in Procs, Close(p) PROVE TypeOK'
  BY <1>15 DEF Close, Finish, Goto, TypeOK, Kinds, Free, tokenVars,
               nonceVars
<1>16. ASSUME NEW p \in Procs, Timeout(p) PROVE TypeOK'
  BY <1>16 DEF Timeout, Finish, Goto, TypeOK, Kinds, Free, tokenVars
<1>17. CASE Tick
  BY <1>17 DEF Tick, TypeOK, tokenVars, nonceVars
<1>18. CASE UNCHANGED vars
  BY <1>18 DEF vars, TypeOK, tokenVars, nonceVars
<1> QED
  BY <1>1, <1>2, <1>3, <1>4, <1>5, <1>6, <1>7, <1>8, <1>9, <1>10, <1>11,
     <1>12, <1>13, <1>14, <1>15, <1>16, <1>17, <1>18
  DEF Next, Arrive, Handle

\* Type correctness of the sessions: the state stays in TypeOK.
THEOREM TypeCorrect == Spec => []TypeOK
<1>1. Init => TypeOK
  BY ConstantsOK DEF ConstantsOK, Init, TypeOK, Kinds, Free
<1>2. TypeOK /\ [Next]_vars => TypeOK'
  BY TypeStep
<1> QED BY <1>1, <1>2, PTL DEF Spec

-----------------------------------------------------------------------------
\* Every step keeps the requests in order: credentials are never un-issued.
LEMMA RequestStep ==
  ASSUME TypeOK, \A p \in Procs : RequestOK(p), [Next]_vars
  PROVE  \A p \in Procs : RequestOK(p)'
<1> SUFFICES ASSUME NEW q \in Procs PROVE RequestOK(q)'
  OBVIOUS
<1> USE ConstantsOK DEF ConstantsOK
<1>0. RequestOK(q)
  OBVIOUS
<1>1. ASSUME NEW t \in Tokens, IssueToken(t) PROVE RequestOK(q)'
  BY <1>0, <1>1 DEF IssueToken, RequestOK, TypeOK, nonceVars
<1>2. ASSUME NEW p \in Procs, NEW t \in Tokens,
             NEW k \in {"logout", "subscribe", "token"}, Request(p, k, t)
      PROVE RequestOK(q)'
  BY <1>0, <1>2 DEF Request, Goto, RequestOK, TypeOK, tokenVars, nonceVars
<1>3. ASSUME NEW p \in Procs, Verify(p) PROVE RequestOK(q)'
  BY <1>0, <1>3 DEF Verify, Handler, Goto, RequestOK, TypeOK, tokenVars,
                    nonceVars
<1>4. ASSUME NEW p \in Procs, VerifyRaises(p) PROVE RequestOK(q)'
  BY <1>0, <1>4 DEF VerifyRaises, TokenFault, Goto, RequestOK, TypeOK,
                    nonceVars
<1>5. ASSUME NEW p \in Procs, Revoke(p) PROVE RequestOK(q)'
  BY <1>0, <1>5 DEF Revoke, Finish, Goto, RequestOK, TypeOK, nonceVars
<1>6. ASSUME NEW p \in Procs, RevokeRaises(p) PROVE RequestOK(q)'
  BY <1>0, <1>6 DEF RevokeRaises, TokenFault, Finish, Goto, RequestOK,
                    TypeOK, nonceVars
<1>7. ASSUME NEW p \in Procs, NEW n \in Nonces, IssueNonce(p, n)
      PROVE RequestOK(q)'
  BY <1>0, <1>7 DEF IssueNonce, Finish, Goto, RequestOK, TypeOK, tokenVars
<1>8. ASSUME NEW p \in Procs, NEW n \in Nonces, IssueNonceRaises(p, n)
      PROVE RequestOK(q)'
  BY <1>0, <1>8 DEF IssueNonceRaises, NonceFault, Finish, Goto, RequestOK,
                    TypeOK, tokenVars
<1>9. ASSUME NEW p \in Procs, NEW n \in Nonces, Open(p, n)
      PROVE RequestOK(q)'
  BY <1>0, <1>9 DEF Open, Goto, RequestOK, TypeOK, tokenVars, nonceVars
<1>10. ASSUME NEW p \in Procs, GetDel(p) PROVE RequestOK(q)'
  BY <1>0, <1>10 DEF GetDel, Accept, Pop, Goto, RequestOK, TypeOK, tokenVars
<1>11. ASSUME NEW p \in Procs, GetDelRaises(p) PROVE RequestOK(q)'
  BY <1>0, <1>11 DEF GetDelRaises, NonceFault, Goto, RequestOK, TypeOK,
                     tokenVars
<1>12. ASSUME NEW p \in Procs, Get(p) PROVE RequestOK(q)'
  BY <1>0, <1>12 DEF Get, Accept, Pop, Goto, RequestOK, TypeOK, tokenVars
<1>13. ASSUME NEW p \in Procs, Del(p) PROVE RequestOK(q)'
  BY <1>0, <1>13 DEF Del, Accept, Goto, RequestOK, TypeOK, tokenVars
<1>14. ASSUME NEW p \in Procs, FallbackRaises(p) PROVE RequestOK(q)'
  BY <1>0, <1>14 DEF FallbackRaises, NonceFault, Accept, Pop, Goto,
                     RequestOK, TypeOK, tokenVars
<1>15. ASSUME NEW p \in Procs, Close(p) \/ Timeout(p) PROVE RequestOK(q)'
  BY <1>0, <1>15 DEF Close, Timeout, Finish, Goto, RequestOK, TypeOK,
                     tokenVars, nonceVars
<1>16. CASE Tick \/ UNCHANGED vars
  BY <1>0, <1>16 DEF Tick, vars, RequestOK, tokenVars, nonceVars
<1> QED
  BY <1>1, <1>2, <1>3, <1>4, <1>5, <1>6, <1>7, <1>8, <1>9, <1>10, <1>11,
     <1>12, <1>13, <1>14, <1>15, <1>16
  DEF Next, Arrive, Handle

\* Every step keeps the denylist in order: only revoke_token sets a key, and
\* no key is shortened below its token.
LEMMA TokenStep ==
  ASSUME TypeOK, \A p \in Procs : RequestOK(p),
         \A t \in Tokens : TokenOK(t), [Next]_vars
  PROVE  \A t \in Tokens : TokenOK(t)'
<1> SUFFICES ASSUME NEW u \in Tokens PROVE TokenOK(u)'
  OBVIOUS
<1> USE ConstantsOK DEF ConstantsOK
<1>0. TokenOK(u)
  OBVIOUS
<1>1. ASSUME NEW t \in Tokens, IssueToken(t) PROVE TokenOK(u)'
  BY <1>0, <1>1 DEF IssueToken, TokenOK, TypeOK, nonceVars
<1>2. ASSUME NEW p \in Procs, VerifyRaises(p) PROVE TokenOK(u)'
  BY <1>0, <1>2 DEF VerifyRaises, TokenFault, TokenOK, TypeOK, nonceVars
<1>3. ASSUME NEW p \in Procs, Revoke(p) \/ RevokeRaises(p)
      PROVE TokenOK(u)'
  <2> DEFINE t == credential[p]
  <2>1. t \in Tokens /\ exp[t] # 0
    BY <1>3 DEF Revoke, RevokeRaises, RequestOK, TypeOK
  <2>2. Ttl(t) \in Nat \ {0} /\ exp[t] < clock + Ttl(t) + Second
    BY <2>1, TtlCovers
  <2>3. /\ denied' \in {denied, [denied EXCEPT ![t] = clock + Ttl(t)]}
        /\ exp' = exp
        /\ \/ denied' = [denied EXCEPT ![t] = clock + Ttl(t)]
              /\ loggedOut' = loggedOut \cup {t} /\ tokenFaults' = tokenFaults
           \/ /\ loggedOut' = loggedOut
              /\ tokenFaults' = [tokenFaults EXCEPT ![t] = @ + 1]
    BY <1>3 DEF Revoke, RevokeRaises, TokenFault
  <2> HIDE DEF t
  <2> QED BY <1>0, <2>1, <2>2, <2>3 DEF TokenOK, TypeOK
<1>4. CASE UNCHANGED tokenVars
  BY <1>0, <1>4 DEF TokenOK, tokenVars
<1> QED
  BY <1>1, <1>2, <1>3, <1>4
  DEF Next, Arrive, Handle, Request, Open, Verify, IssueNonce,
      IssueNonceRaises, GetDel, GetDelRaises, Get, Del, FallbackRaises,
      Close, Timeout, Tick, vars

-----------------------------------------------------------------------------
\* The cardinalities of sets of processes that the ledger needs.
LEMMA Cards ==
  ASSUME ConstantsOK, NEW S \in SUBSET Procs, NEW T \in SUBSET Procs,
         NEW p
  PROVE  /\ Cardinality(S) \in Nat /\ Cardinality(T) \in Nat
         /\ T \subseteq S => Cardinality(T) <= Cardinality(S)
         /\ p \in S /\ T \subseteq S \ {p} =>
                Cardinality(T) + 1 <= Cardinality(S)
         /\ T \subseteq S \cup {p} => Cardinality(T) <= Cardinality(S) + 1
         /\ Cardinality({}) = 0
<1>1. IsFiniteSet(S) /\ IsFiniteSet(T) /\ IsFiniteSet(S \ {p})
          /\ IsFiniteSet(S \cup {p})
  BY FS_Subset, FS_AddElement DEF ConstantsOK
<1>2. Cardinality(S) \in Nat /\ Cardinality(T) \in Nat
          /\ Cardinality(S \ {p}) \in Nat
  BY <1>1, FS_CardinalityType
<1>3. T \subseteq S => Cardinality(T) <= Cardinality(S)
  BY <1>1, FS_Subset
<1>4. ASSUME p \in S, T \subseteq S \ {p}
      PROVE  Cardinality(T) + 1 <= Cardinality(S)
  <2>1. Cardinality(T) <= Cardinality(S \ {p})
    BY <1>1, <1>4, FS_Subset
  <2>2. Cardinality(S \ {p}) = Cardinality(S) - 1
    BY <1>1, <1>4, FS_RemoveElement
  <2> QED BY <1>2, <2>1, <2>2
<1>5. ASSUME T \subseteq S \cup {p}
      PROVE  Cardinality(T) <= Cardinality(S) + 1
  <2>1. Cardinality(T) <= Cardinality(S \cup {p})
    BY <1>1, <1>5, FS_Subset
  <2>2. Cardinality(S \cup {p}) <= Cardinality(S) + 1
    <3>1. CASE p \in S
      <4>1. S \cup {p} = S
        BY <3>1
      <4> QED BY <1>2, <4>1
    <3>2. CASE p \notin S
      BY <1>1, <1>2, <3>2, FS_AddElement
    <3> QED BY <3>1, <3>2
  <2>3. Cardinality(S \cup {p}) \in Nat
    BY <1>1, FS_CardinalityType
  <2> QED BY <1>2, <2>1, <2>2, <2>3
<1> QED BY <1>2, <1>3, <1>4, <1>5, FS_EmptySet

\* A nonce that a step leaves alone stays in order.
LEMMA NonceKept ==
  ASSUME ConstantsOK, TypeOK, TypeOK', NEW n \in Nonces, NonceOK(n),
         clock' >= clock,
         Holders(n)' \subseteq Holders(n), Getters(n)' \subseteq Getters(n),
         stored'[n] = stored[n], streams'[n] = streams[n],
         born'[n] = born[n], nonceFaults'[n] = nonceFaults[n]
  PROVE  NonceOK(n)'
<1>1. /\ Holders(n) \in SUBSET Procs /\ Getters(n) \in SUBSET Procs
      /\ Holders(n)' \in SUBSET Procs /\ Getters(n)' \in SUBSET Procs
  BY DEF Holders, Getters
<1>2. /\ Cardinality(Holders(n))' <= Cardinality(Holders(n))
      /\ Cardinality(Getters(n))' <= Cardinality(Getters(n))
      /\ Cardinality(Holders(n))' \in Nat /\ Cardinality(Holders(n)) \in Nat
      /\ Cardinality(Getters(n))' \in Nat /\ Cardinality(Getters(n)) \in Nat
  BY <1>1, Cards
<1>3. Left(n)' = Left(n) /\ Left(n) \in Nat
  BY DEF Left
<1>4. Ledger(n)'
  BY <1>2, <1>3 DEF Ledger, NonceOK, TypeOK
<1> QED BY <1>4 DEF NonceOK, TypeOK, ConstantsOK

\* Pop takes one place of n at most and opens one stream for it at most.
LEMMA PopBalances ==
  ASSUME ConstantsOK, TypeOK, NEW p \in Procs, NEW n \in Nonces, Pop(p, n)
  PROVE  /\ Holders(n)' = Holders(n) \ {p}
         /\ \A m \in Nonces \ {n} : Holders(m)' = Holders(m)
         /\ streams' \in [Nonces -> Nat]
         /\ \A m \in Nonces \ {n} : streams'[m] = streams[m]
         /\ \/ streams'[n] = streams[n] /\ p \notin Holders(n)
            \/ streams'[n] = streams[n] + 1 /\ p \in Holders(n)
         /\ streams'[n] + Cardinality(Holders(n)')
                <= streams[n] + Cardinality(Holders(n))
         /\ Goto(p, "401") \/ Goto(p, "streaming")
<1>1. /\ Holders(n)' = Holders(n) \ {p}
      /\ \A m \in Nonces \ {n} : Holders(m)' = Holders(m)
  BY DEF Pop, Holders, TypeOK
<1>2. \/ streams' = streams /\ p \notin Holders(n) /\ Goto(p, "401")
      \/ /\ streams' = [streams EXCEPT ![n] = @ + 1]
         /\ p \in Holders(n) /\ Goto(p, "streaming")
  BY DEF Pop, Accept, Holders
<1>3. /\ Cardinality(Holders(n)) \in Nat
      /\ Cardinality(Holders(n) \ {p}) \in Nat
      /\ p \in Holders(n) =>
             Cardinality(Holders(n) \ {p}) + 1 <= Cardinality(Holders(n))
      /\ Cardinality(Holders(n) \ {p}) <= Cardinality(Holders(n))
  <2>1. Holders(n) \in SUBSET Procs /\ Holders(n) \ {p} \in SUBSET Procs
    BY DEF Holders
  <2> QED BY <2>1, Cards
<1> QED BY <1>1, <1>2, <1>3 DEF TypeOK

\* Every step keeps the nonces in order, the calls that fail and the
\* fallback of consume_nonce included.
LEMMA NonceStep ==
  ASSUME TypeOK, \A p \in Procs : RequestOK(p),
         \A n \in Nonces : NonceOK(n), [Next]_vars
  PROVE  \A n \in Nonces : NonceOK(n)'
<1> SUFFICES ASSUME NEW m \in Nonces PROVE NonceOK(m)'
  OBVIOUS
<1> USE ConstantsOK
<1>0. NonceOK(m) /\ TypeOK'
  BY TypeStep
<1>c. /\ Cardinality(Holders(m)) \in Nat /\ Cardinality(Getters(m)) \in Nat
      /\ Cardinality(Holders(m))' \in Nat /\ Cardinality(Getters(m))' \in Nat
      /\ Cardinality({}) = 0
  <2>1. /\ Holders(m) \in SUBSET Procs /\ Getters(m) \in SUBSET Procs
        /\ Holders(m)' \in SUBSET Procs /\ Getters(m)' \in SUBSET Procs
    BY DEF Holders, Getters
  <2> QED BY <2>1, Cards
<1>t. /\ clock \in Nat \ {0} /\ NonceTtl \in Nat \ {0}
      /\ stored[m] \in Nat /\ streams[m] \in Nat /\ born[m] \in Nat
      /\ nonceFaults[m] \in Nat
  BY DEF TypeOK, ConstantsOK
<1>1. ASSUME UNCHANGED nonceVars, clock' >= clock,
             Getters(m)' \subseteq Getters(m)
      PROVE  NonceOK(m)'
  <2>1. Holders(m)' = Holders(m)
    BY <1>1 DEF nonceVars, Holders
  <2> QED BY <1>0, <1>1, <2>1, NonceKept DEF nonceVars
<1>2. CASE \E t \in Tokens : IssueToken(t)
  BY <1>1, <1>2 DEF IssueToken, Getters, TypeOK
<1>3. ASSUME NEW p \in Procs, Arrive(p) PROVE NonceOK(m)'
  BY <1>1, <1>3 DEF Arrive, Request, Open, Goto, Getters, TypeOK, Free
<1>4. ASSUME NEW p \in Procs, Verify(p) PROVE NonceOK(m)'
  BY <1>1, <1>4 DEF Verify, Handler, Goto, Getters, TypeOK
<1>5. ASSUME NEW p \in Procs, VerifyRaises(p) PROVE NonceOK(m)'
  BY <1>1, <1>5 DEF VerifyRaises, Goto, Getters, TypeOK
<1>6. ASSUME NEW p \in Procs, Revoke(p) \/ RevokeRaises(p) \/ Close(p)
      PROVE NonceOK(m)'
  BY <1>1, <1>6 DEF Revoke, RevokeRaises, Close, Finish, Goto, Getters,
                    TypeOK
<1>7. CASE Tick \/ UNCHANGED vars
  BY <1>1, <1>7, <1>t DEF Tick, vars, Getters, TypeOK
<1>8. ASSUME NEW p \in Procs, Timeout(p) PROVE NonceOK(m)'
  <2>1. Holders(m)' \subseteq Holders(m) /\ Getters(m)' \subseteq Getters(m)
    BY <1>8 DEF Timeout, Finish, Goto, Holders, Getters, TypeOK
  <2> QED BY <1>0, <1>8, <2>1, <1>t, NonceKept DEF Timeout
<1>9. ASSUME NEW p \in Procs, NEW n \in Nonces,
             IssueNonce(p, n) \/ IssueNonceRaises(p, n)
      PROVE  NonceOK(m)'
  <2>1. /\ Getters(m)' \subseteq Getters(m)
        /\ Holders(m)' \subseteq Holders(m) \cup {p}
        /\ m # n => Holders(m)' = Holders(m)
        /\ IssueNonce(p, n) => Holders(m)' = Holders(m)
    BY <1>9 DEF IssueNonce, IssueNonceRaises, Finish, Goto, Holders,
                Getters, TypeOK
  <2>2. CASE m # n
    BY <1>0, <1>9, <1>t, <2>1, <2>2, NonceKept
    DEF IssueNonce, IssueNonceRaises, NonceFault, TypeOK
  <2>3. CASE m = n
    <3>1. /\ born[m] = 0 /\ stored[m] = 0 /\ streams[m] = 0
          /\ Holders(m) = {} /\ Getters(m) = {} /\ Getters(m)' = {}
      BY <1>0, <1>9, <2>1, <2>3 DEF NonceOK, IssueNonce, IssueNonceRaises
    <3>2. CASE IssueNonce(p, n)
      <4>1. /\ born'[m] = clock /\ stored'[m] = clock + NonceTtl
            /\ streams'[m] = 0 /\ nonceFaults'[m] = nonceFaults[m]
            /\ Holders(m)' = {}
        BY <2>1, <2>3, <3>1, <3>2 DEF IssueNonce, TypeOK
      <4>2. Left(m)' \in 0..1
        BY DEF Left
      <4>3. Ledger(m)'
        BY <1>t, <1>c, <3>1, <4>1, <4>2 DEF Ledger
      <4> QED BY <1>t, <3>1, <4>1, <4>3 DEF NonceOK
    <3>3. CASE IssueNonceRaises(p, n)
      <4>1. /\ born'[m] = clock /\ streams'[m] = 0
            /\ nonceFaults'[m] = nonceFaults[m] + 1
        BY <2>3, <3>1, <3>3 DEF IssueNonceRaises, NonceFault, TypeOK
      <4>2. Left(m)' \in 0..1
        BY DEF Left
      <4>3. Cardinality(Holders(m))' <= 1
        <5>1. Holders(m)' \in SUBSET Procs /\ Holders(m)' \subseteq {} \cup {p}
          BY <2>1, <3>1 DEF Holders
        <5> QED BY <1>c, <5>1, Cards
      <4>4. Ledger(m)'
        BY <1>t, <1>c, <3>1, <4>1, <4>2, <4>3 DEF Ledger
      <4> QED BY <1>t, <4>1, <4>4 DEF NonceOK
    <3> QED BY <1>9, <3>2, <3>3
  <2> QED BY <2>2, <2>3
<1>10. ASSUME NEW p \in Procs,
              \/ GetDel(p) \/ GetDelRaises(p) \/ Get(p) \/ Del(p)
              \/ FallbackRaises(p)
       PROVE  NonceOK(m)'
  <2> DEFINE n == credential[p]
  <2>1. n \in Nonces /\ born[n] # 0 /\ UNCHANGED <<clock, born, credential>>
    BY <1>10 DEF GetDel, GetDelRaises, Get, Del, FallbackRaises, RequestOK,
                 TypeOK
  <2>2. CASE m # n
    <3>1. Holders(m)' = Holders(m) /\ streams'[m] = streams[m]
      <4>1. CASE Pop(p, n)
        BY <2>1, <2>2, <4>1, PopBalances
      <4>2. CASE memory' = memory
                     /\ streams' \in {streams, [streams EXCEPT ![n] = @ + 1]}
        BY <2>1, <2>2, <4>2 DEF Holders, TypeOK
      <4> QED
        BY <1>10, <4>1, <4>2
        DEF GetDel, GetDelRaises, Get, Del, FallbackRaises, Accept
    <3>2. Getters(m)' = Getters(m)
      BY <1>10, <2>1, <2>2
      DEF GetDel, GetDelRaises, Get, Del, FallbackRaises, Accept, Pop, Goto,
          Getters, TypeOK
    <3>3. stored'[m] = stored[m] /\ nonceFaults'[m] = nonceFaults[m]
      BY <1>10, <2>1, <2>2
      DEF GetDel, GetDelRaises, Get, Del, FallbackRaises, NonceFault, TypeOK
    <3> QED BY <1>0, <1>t, <2>1, <3>1, <3>2, <3>3, NonceKept
  <2>3. CASE m = n
    <3>1. Left(m) \in 0..1 /\ Left(m)' \in 0..1
      BY DEF Left
    <3>2. stored'[m] \in {stored[m], 0} /\ Left(m)' <= Left(m)
      BY <1>10, <1>t, <2>3
      DEF GetDel, GetDelRaises, Get, Del, FallbackRaises, Left, TypeOK
    <3>3. CASE GetDel(p)
      <4>1. Getters(m)' = Getters(m)
        BY <2>1, <3>3 DEF GetDel, Accept, Pop, Goto, Getters, TypeOK
      <4>2. stored'[m] = 0 /\ nonceFaults' = nonceFaults /\ Left(m)' = 0
        BY <2>1, <2>3, <3>3 DEF GetDel, TypeOK, Left
      <4>3. CASE Stored(n)
        <5>1. Holders(m)' = Holders(m) /\ streams'[m] = streams[m] + 1
          BY <2>3, <3>3, <4>3 DEF GetDel, Accept, Holders, TypeOK
        <5>2. Left(m) = 1
          BY <1>t, <2>3, <4>3 DEF Stored, Left
        <5>3. Ledger(m)'
          BY <1>0, <1>t, <1>c, <3>1, <4>1, <4>2, <5>1, <5>2
          DEF Ledger, NonceOK
        <5> QED BY <1>0, <1>t, <2>1, <2>3, <4>1, <4>2, <5>1, <5>3 DEF NonceOK
      <4>4. CASE ~Stored(n)
        <5>1. Pop(p, m)
          BY <2>3, <3>3, <4>4 DEF GetDel
        <5>2. Ledger(m)'
          BY <1>0, <1>t, <1>c, <3>1, <4>1, <4>2, <5>1, PopBalances
          DEF Ledger, NonceOK
        <5>3. ASSUME nonceFaults[m] = 0
              PROVE  /\ Holders(m)' = {} /\ Getters(m)' = {}
                     /\ streams'[m] = streams[m]
                     /\ streams[m] > 0 \/ clock >= born[m] + NonceTtl
          BY <1>0, <1>t, <2>1, <2>3, <4>1, <4>4, <5>1, <5>3, PopBalances
          DEF NonceOK, Stored
        <5> QED BY <2>1, <2>3, <4>2, <5>2, <5>3 DEF NonceOK
      <4> QED BY <4>3, <4>4
    <3>4. CASE GetDelRaises(p)
      <4>1. /\ Holders(m)' = Holders(m) /\ streams' = streams
            /\ nonceFaults'[m] = nonceFaults[m] + 1
        BY <2>3, <3>4 DEF GetDelRaises, NonceFault, Holders, TypeOK
      <4>2. Cardinality(Getters(m))' <= Cardinality(Getters(m)) + 1
        <5>1. /\ Getters(m)' \subseteq Getters(m) \cup {p}
              /\ Getters(m) \in SUBSET Procs /\ Getters(m)' \in SUBSET Procs
          BY <2>1, <3>4 DEF GetDelRaises, Goto, Getters, TypeOK
        <5> QED BY <5>1, Cards
      <4>3. Ledger(m)'
        BY <1>0, <1>t, <1>c, <3>1, <3>2, <4>1, <4>2 DEF Ledger, NonceOK
      <4> QED BY <1>t, <2>1, <2>3, <4>1, <4>3 DEF NonceOK
    <3>5. CASE (Get(p) /\ ~Stored(n)) \/ FallbackRaises(p)
      <4>1. /\ Pop(p, m) /\ p \in Getters(m)
            /\ nonceFaults'[m] \in {nonceFaults[m], nonceFaults[m] + 1}
        BY <2>3, <3>5
        DEF Get, FallbackRaises, NonceFault, Getters, TypeOK
      <4>2. Cardinality(Getters(m))' <= Cardinality(Getters(m))
        <5>1. /\ Getters(m)' \subseteq Getters(m)
              /\ Getters(m) \in SUBSET Procs /\ Getters(m)' \in SUBSET Procs
          BY <2>1, <4>1 DEF Pop, Accept, Goto, Getters, TypeOK
        <5> QED BY <5>1, Cards
      <4>3. Ledger(m)'
        BY <1>0, <1>t, <1>c, <3>1, <3>2, <4>1, <4>2, PopBalances
        DEF Ledger, NonceOK
      <4>4. nonceFaults'[m] # 0
        BY <1>0, <1>t, <4>1 DEF NonceOK
      <4> QED BY <2>1, <2>3, <4>3, <4>4 DEF NonceOK
    <3>6. CASE Get(p) /\ Stored(n)
      <4>1. /\ Holders(m)' = Holders(m) /\ Getters(m)' = Getters(m)
            /\ UNCHANGED <<clock, stored, streams, born, nonceFaults>>
        BY <2>1, <3>6 DEF Get, Goto, Holders, Getters, TypeOK
      <4> QED BY <1>0, <1>t, <4>1, NonceKept
    <3>7. CASE Del(p)
      <4>1. /\ Holders(m)' = Holders(m) /\ p \in Getters(m)
            /\ nonceFaults' = nonceFaults
            /\ streams'[m] = streams[m] + 1
        BY <2>3, <3>7 DEF Del, Accept, Holders, Getters, TypeOK
      <4>2. Cardinality(Getters(m))' + 1 <= Cardinality(Getters(m))
        <5>1. /\ Getters(m)' \subseteq Getters(m) \ {p}
              /\ Getters(m) \in SUBSET Procs /\ Getters(m)' \in SUBSET Procs
          BY <2>1, <3>7 DEF Del, Accept, Goto, Getters, TypeOK
        <5> QED BY <4>1, <5>1, Cards
      <4>3. Ledger(m)'
        BY <1>0, <1>t, <1>c, <3>1, <3>2, <4>1, <4>2 DEF Ledger, NonceOK
      <4>4. nonceFaults'[m] # 0
        BY <1>0, <4>1 DEF NonceOK
      <4> QED BY <2>1, <2>3, <4>3, <4>4 DEF NonceOK
    <3> QED BY <1>10, <3>3, <3>4, <3>5, <3>6, <3>7
  <2> QED BY <2>2, <2>3
<1> QED
  BY <1>2, <1>3, <1>4, <1>5, <1>6, <1>7, <1>8, <1>9, <1>10 DEF Next, Handle

-----------------------------------------------------------------------------
\* The inductive invariant.
IInv ==
    /\ TypeOK
    /\ \A p \in Procs : RequestOK(p)
    /\ \A t \in Tokens : TokenOK(t)
    /\ \A n \in Nonces : NonceOK(n)

\* The inductive invariant holds in every state of the API.
LEMMA IInvHolds == Spec => []IInv
<1>1. Init => IInv
  <2> SUFFICES ASSUME Init PROVE IInv
    OBVIOUS
  <2>1. TypeOK
    BY ConstantsOK DEF ConstantsOK, Init, TypeOK, Kinds, Free
  <2>2. \A p \in Procs : RequestOK(p)
    BY DEF Init, RequestOK
  <2>3. \A t \in Tokens : TokenOK(t)
    BY DEF Init, TokenOK
  <2>4. ASSUME NEW n \in Nonces PROVE NonceOK(n)
    <3>1. /\ Holders(n) = {} /\ Getters(n) = {}
          /\ born[n] = 0 /\ stored[n] = 0 /\ streams[n] = 0
          /\ nonceFaults[n] = 0
      BY DEF Init, Holders, Getters
    <3>2. Left(n) = 0 /\ Cardinality({}) = 0
      BY <3>1, FS_EmptySet DEF Left
    <3> QED BY <3>1, <3>2 DEF NonceOK, Ledger
  <2> QED BY <2>1, <2>2, <2>3, <2>4 DEF IInv
<1>2. IInv /\ [Next]_vars => IInv'
  BY TypeStep, RequestStep, TokenStep, NonceStep DEF IInv
<1> QED BY <1>1, <1>2, PTL DEF Spec

\* What a step never takes back: the time, the credentials given out, the
\* streams, the faults and the logouts.
LEMMA Growth ==
  ASSUME TypeOK, [Next]_vars
  PROVE  /\ clock' >= clock
         /\ \A n \in Nonces : /\ born[n] # 0 => born'[n] = born[n]
                             /\ streams'[n] >= streams[n]
                             /\ nonceFaults'[n] >= nonceFaults[n]
         /\ \A t \in Tokens : /\ exp[t] # 0 => exp'[t] = exp[t]
                             /\ tokenFaults'[t] >= tokenFaults[t]
         /\ loggedOut \subseteq loggedOut'
<1>1. clock' >= clock
  BY DEF TypeOK, Next, vars, Arrive, Handle, IssueToken, Request, Open,
         Verify, VerifyRaises, Revoke, RevokeRaises, IssueNonce,
         IssueNonceRaises, GetDel, GetDelRaises, Get, Del, FallbackRaises,
         Close, Timeout, Tick
<1>2. ASSUME NEW n \in Nonces
      PROVE  born[n] # 0 => born'[n] = born[n]
  BY DEF TypeOK, Next, vars, Arrive, Handle, IssueToken, Request, Open,
         Verify, VerifyRaises, Revoke, RevokeRaises, IssueNonce,
         IssueNonceRaises, GetDel, GetDelRaises, Get, Del, FallbackRaises,
         Close, Timeout, Tick, nonceVars
<1>3. ASSUME NEW n \in Nonces
      PROVE  nonceFaults'[n] >= nonceFaults[n]
  BY DEF TypeOK, Next, vars, Arrive, Handle, IssueToken, Request, Open,
         Verify, VerifyRaises, Revoke, RevokeRaises, IssueNonce,
         IssueNonceRaises, GetDel, GetDelRaises, Get, Del, FallbackRaises,
         Close, Timeout, Tick, nonceVars, NonceFault
<1>4. ASSUME NEW n \in Nonces
      PROVE  streams'[n] >= streams[n]
  BY DEF TypeOK, Next, vars, Arrive, Handle, IssueToken, Request, Open,
         Verify, VerifyRaises, Revoke, RevokeRaises, IssueNonce,
         IssueNonceRaises, GetDel, GetDelRaises, Get, Del, FallbackRaises,
         Close, Timeout, Tick, nonceVars, Accept, Pop
<1>5. ASSUME NEW t \in Tokens
      PROVE  /\ exp[t] # 0 => exp'[t] = exp[t]
             /\ tokenFaults'[t] >= tokenFaults[t]
  BY DEF TypeOK, Next, vars, Arrive, Handle, IssueToken, Request, Open,
         Verify, VerifyRaises, Revoke, RevokeRaises, IssueNonce,
         IssueNonceRaises, GetDel, GetDelRaises, Get, Del, FallbackRaises,
         Close, Timeout, Tick, tokenVars, TokenFault
<1>6. loggedOut \subseteq loggedOut'
  BY DEF TypeOK, Next, vars, Arrive, Handle, IssueToken, Request, Open,
         Verify, VerifyRaises, Revoke, RevokeRaises, IssueNonce,
         IssueNonceRaises, GetDel, GetDelRaises, Get, Del, FallbackRaises,
         Close, Timeout, Tick, tokenVars
<1> QED BY <1>1, <1>2, <1>3, <1>4, <1>5, <1>6

\* While nothing but Redis keeps a nonce, only a GETDEL that finds it opens
\* a stream with it.
LEMMA StreamOpens ==
  ASSUME TypeOK, [Next]_vars, NEW n \in Nonces, streams'[n] # streams[n],
         Holders(n) = {}, Getters(n) = {}
  PROVE  \E p \in Procs : GetDel(p) /\ credential[p] = n /\ Stored(n)
<1>1. PICK p \in Procs :
          GetDel(p) \/ Get(p) \/ Del(p) \/ FallbackRaises(p)
  BY DEF Next, vars, Arrive, Handle, IssueToken, Request, Open,
         Verify, VerifyRaises, Revoke, RevokeRaises, IssueNonce,
         IssueNonceRaises, GetDelRaises, Close, Timeout, Tick, nonceVars
<1>2. credential[p] = n
  <2>1. streams' \in {streams, [streams EXCEPT ![credential[p]] = @ + 1]}
    BY <1>1 DEF GetDel, Get, Del, FallbackRaises, Pop, Accept
  <2> QED BY <2>1 DEF TypeOK
<1>3. n \notin memory[p] /\ at[p] \notin {"get", "del"}
  BY <1>2 DEF Holders, Getters
<1>4. GetDel(p)
  BY <1>1, <1>3 DEF Get, Del, FallbackRaises
<1>5. Stored(n)
  BY <1>2, <1>3, <1>4 DEF GetDel, Pop
<1> QED BY <1>2, <1>4, <1>5

\* After a logout answered 200, jwt_required refuses the token for all but
\* the last second of its life, whatever calls fail.
THEOREM RevocationLasts == Spec => RevokedUntilTheLastSecond
<1>1. ASSUME IInv, [Next]_vars, NEW p \in Procs, LetThrough(p),
             credential[p] \in loggedOut
      PROVE  exp[credential[p]] < clock + Second
  <2> DEFINE t == credential[p]
  <2>1. CASE Verify(p)
    <3>1. t \in Tokens /\ ~Denied(t)
      BY <1>1, <2>1 DEF Verify, LetThrough, Goto, IInv, TypeOK
    <3>2. denied[t] # 0 /\ exp[t] < denied[t] + Second
      BY <1>1, <3>1 DEF IInv, TokenOK
    <3> QED
      BY <1>1, <3>1, <3>2, ConstantsOK DEF Denied, IInv, TypeOK, ConstantsOK
  <2>2. CASE ~Verify(p)
    <3>1. at'[p] \in {"verify", "401"}
      BY <1>1, <2>2
      DEF LetThrough, Next, vars, Arrive, Handle, IssueToken, Request, Open,
          VerifyRaises, Revoke, RevokeRaises, IssueNonce, IssueNonceRaises,
          GetDel, GetDelRaises, Get, Del, FallbackRaises, Verify, Close,
          Timeout, Tick, Accept, Pop, Finish, Goto, Free, IInv, TypeOK
    <3> QED BY <1>1, <3>1 DEF LetThrough
  <2> QED BY <2>1, <2>2
<1>2. IInv /\ [Next]_vars =>
          [\A p \in Procs : LetThrough(p) /\ credential[p] \in loggedOut =>
               exp[credential[p]] < clock + Second]_vars
  BY <1>1
<1> QED BY <1>2, IInvHolds, PTL DEF Spec, RevokedUntilTheLastSecond

\* consume_nonce lets a nonce open one stream, within its TTL, and one more
\* for each failed call about it.
THEOREM NoncesOpenOneStream == Spec => NonceOpensOneStreamInTime
<1>1. ASSUME IInv, IInv', [Next]_vars, NEW n \in Nonces,
             streams'[n] # streams[n]
      PROVE  /\ streams'[n] <= 1 + nonceFaults'[n]
             /\ clock < born[n] + NonceTtl \/ nonceFaults'[n] > 0
  <2>1. streams'[n] <= 1 + nonceFaults'[n]
    <3>1. Ledger(n)' /\ TypeOK'
      BY <1>1 DEF IInv, NonceOK
    <3>2. Holders(n)' \in SUBSET Procs /\ Getters(n)' \in SUBSET Procs
      BY DEF Holders, Getters
    <3>3. /\ Cardinality(Holders(n))' \in Nat
          /\ Cardinality(Getters(n))' \in Nat
      BY <3>2, Cards, ConstantsOK
    <3>4. Left(n)' \in Nat
      BY DEF Left
    <3> QED BY <3>1, <3>3, <3>4 DEF Ledger, TypeOK
  <2>2. ASSUME nonceFaults'[n] = 0 PROVE clock < born[n] + NonceTtl
    <3>1. nonceFaults[n] = 0
      BY <1>1, <2>2, Growth DEF IInv, TypeOK
    <3>2. NonceOK(n) /\ Holders(n) = {} /\ Getters(n) = {}
      BY <1>1, <3>1 DEF IInv, NonceOK
    <3>3. PICK p \in Procs : GetDel(p) /\ credential[p] = n /\ Stored(n)
      BY <1>1, <3>2, StreamOpens DEF IInv
    <3>4. born[n] # 0
      BY <1>1, <3>3 DEF IInv, RequestOK, GetDel
    <3>5. stored[n] \in {0, born[n] + NonceTtl}
      BY <3>1, <3>2, <3>4 DEF NonceOK
    <3> QED BY <1>1, <3>3, <3>5 DEF Stored, IInv, TypeOK
  <2> QED BY <1>1, <2>1, <2>2 DEF IInv, TypeOK
<1>2. IInv /\ IInv' /\ [Next]_vars =>
          [\A n \in Nonces :
              streams'[n] # streams[n] =>
                  /\ streams'[n] <= 1 + nonceFaults'[n]
                  /\ clock < born[n] + NonceTtl \/ nonceFaults'[n] > 0]_vars
  BY <1>1
<1> QED BY <1>2, IInvHolds, PTL DEF Spec, NonceOpensOneStreamInTime

-----------------------------------------------------------------------------
\* The reason of a refusal: the body of RefusalHasACause.
Cause(p) ==
    LET c == credential[p] IN
    IF kind[p] = "nonce"
    THEN \/ clock >= born[c] + NonceTtl
         \/ streams[c] > 0
         \/ nonceFaults[c] > 0
    ELSE Expired(c) \/ c \in loggedOut \/ tokenFaults[c] > 0

\* A request has a cause to be refused when the 401 is given.
LEMMA NewRefusal ==
  ASSUME IInv, NEW p \in Procs, at'[p] = "401",
         \/ Verify(p) \/ VerifyRaises(p) \/ GetDel(p) \/ Get(p)
         \/ FallbackRaises(p)
  PROVE  Cause(p)'
<1> DEFINE c == credential[p]
<1>t. TypeOK /\ ConstantsOK
  BY ConstantsOK DEF IInv
<1>1. CASE Verify(p)
  <2>1. /\ c \in Tokens /\ kind[p] # "nonce"
        /\ Expired(c) \/ Denied(c)
        /\ UNCHANGED <<clock, kind, credential, exp, loggedOut, tokenFaults>>
    BY <1>t, <1>1
    DEF Verify, Handler, Goto, IInv, RequestOK, TypeOK, tokenVars
  <2>2. Denied(c) => c \in loggedOut \/ tokenFaults[c] > 0
    <3>1. TokenOK(c) /\ clock \in Nat /\ denied[c] \in Nat
      BY <1>t, <2>1 DEF IInv, TypeOK
    <3>2. Denied(c) => denied[c] # 0
      BY <3>1 DEF Denied
    <3> QED BY <3>1, <3>2 DEF TokenOK
  <2>3. Expired(c) \/ c \in loggedOut \/ tokenFaults[c] > 0
    BY <2>1, <2>2
  <2> QED BY <2>1, <2>3 DEF Cause, Expired
<1>2. CASE VerifyRaises(p)
  BY <1>t, <1>2
  DEF VerifyRaises, TokenFault, Cause, IInv, RequestOK, TypeOK
<1>3. CASE GetDel(p)
  <2>1. /\ c \in Nonces /\ kind[p] = "nonce" /\ born[c] # 0
        /\ UNCHANGED <<clock, kind, credential, born, nonceFaults>>
    BY <1>t, <1>3 DEF GetDel, IInv, RequestOK, TypeOK
  <2>2. ~Stored(c) /\ streams' = streams
    BY <1>t, <1>3 DEF GetDel, Accept, Pop, Goto, TypeOK
  <2>3. \/ nonceFaults[c] > 0
        \/ stored[c] = born[c] + NonceTtl
        \/ streams[c] > 0 \/ clock >= born[c] + NonceTtl
    BY <1>t, <2>1 DEF IInv, NonceOK, TypeOK
  <2>4. stored[c] = born[c] + NonceTtl => clock >= born[c] + NonceTtl
    BY <1>t, <2>1, <2>2 DEF Stored, TypeOK, ConstantsOK
  <2> QED BY <2>1, <2>2, <2>3, <2>4 DEF Cause
<1>4. CASE Get(p) \/ FallbackRaises(p)
  <2>1. /\ c \in Nonces /\ kind[p] = "nonce" /\ p \in Getters(c)
        /\ UNCHANGED <<clock, kind, credential, born>>
        /\ nonceFaults'[c] \in {nonceFaults[c], nonceFaults[c] + 1}
    BY <1>t, <1>4
    DEF Get, FallbackRaises, NonceFault, IInv, RequestOK, TypeOK, Getters
  <2>2. nonceFaults[c] > 0
    BY <1>t, <2>1 DEF IInv, NonceOK, TypeOK
  <2> QED BY <1>t, <2>1, <2>2 DEF Cause, TypeOK
<1> QED BY <1>1, <1>2, <1>3, <1>4

\* The cause of a 401 already given lasts.
LEMMA OldRefusal ==
  ASSUME IInv, [Next]_vars, NEW p \in Procs, at[p] = "401", Cause(p),
         kind'[p] = kind[p], credential'[p] = credential[p]
  PROVE  Cause(p)'
<1> DEFINE c == credential[p]
<1>t. TypeOK /\ TypeOK' /\ ConstantsOK
  BY ConstantsOK, TypeStep DEF IInv
<1>1. CASE kind[p] = "nonce"
  <2>1. c \in Nonces /\ born[c] # 0
    BY <1>1 DEF IInv, RequestOK
  <2>2. /\ clock' >= clock /\ born'[c] = born[c]
        /\ streams'[c] >= streams[c] /\ nonceFaults'[c] >= nonceFaults[c]
    BY <1>t, <2>1, Growth
  <2> QED BY <1>t, <1>1, <2>1, <2>2 DEF Cause, TypeOK, ConstantsOK
<1>2. CASE kind[p] # "nonce"
  <2>1. c \in Tokens /\ exp[c] # 0
    BY <1>2 DEF IInv, RequestOK
  <2>2. /\ clock' >= clock /\ exp'[c] = exp[c]
        /\ tokenFaults'[c] >= tokenFaults[c] /\ loggedOut \subseteq loggedOut'
    BY <1>t, <2>1, Growth
  <2> QED BY <1>t, <1>2, <2>1, <2>2 DEF Cause, Expired, TypeOK
<1> QED BY <1>1, <1>2

\* A 401 was there before the step, or comes from one of five steps of
\* jwt_required and consume_nonce.
LEMMA WhoRefuses ==
  ASSUME TypeOK, [Next]_vars, NEW p \in Procs, at'[p] = "401"
  PROVE  \/ Verify(p) \/ VerifyRaises(p) \/ GetDel(p) \/ Get(p)
         \/ FallbackRaises(p)
         \/ /\ at[p] = "401"
            /\ kind'[p] = kind[p] /\ credential'[p] = credential[p]
<1>1. ASSUME NEW q \in Procs, Handle(q), q # p
      PROVE  /\ at[p] = "401"
             /\ kind'[p] = kind[p] /\ credential'[p] = credential[p]
  BY <1>1
  DEF Handle, Verify, VerifyRaises, Revoke, RevokeRaises, IssueNonce,
      IssueNonceRaises, GetDel, GetDelRaises, Get, Del, FallbackRaises,
      Accept, Pop, Finish, Goto, TypeOK
<1>2. ASSUME Handle(p)
      PROVE  \/ Verify(p) \/ VerifyRaises(p) \/ GetDel(p) \/ Get(p)
             \/ FallbackRaises(p)
  BY <1>2
  DEF Handle, Revoke, RevokeRaises, IssueNonce, IssueNonceRaises,
      GetDelRaises, Del, Accept, Finish, Goto, TypeOK
<1>3. ASSUME NEW q \in Procs, Arrive(q) \/ Close(q) \/ Timeout(q)
      PROVE  /\ at[p] = "401"
             /\ kind'[p] = kind[p] /\ credential'[p] = credential[p]
  BY <1>3 DEF Arrive, Request, Open, Close, Timeout, Finish, Goto, TypeOK
<1>4. CASE Tick \/ UNCHANGED vars \/ \E t \in Tokens : IssueToken(t)
  BY <1>4 DEF Tick, vars, IssueToken
<1> QED BY <1>1, <1>2, <1>3, <1>4 DEF Next

\* No request is refused without a reason its client can know of: an expired
\* or used credential, a logout, or a failed call.
THEOREM RefusalsHaveCauses == Spec => []RefusalHasACause
<1>1. Init => RefusalHasACause
  BY DEF Init, RefusalHasACause
<1>2. RefusalHasACause <=> \A p \in Procs : at[p] = "401" => Cause(p)
  BY DEF RefusalHasACause, Cause
<1>3. ASSUME IInv, RefusalHasACause, [Next]_vars
      PROVE  RefusalHasACause'
  <2>1. ASSUME NEW p \in Procs, at'[p] = "401" PROVE Cause(p)'
    <3>1. TypeOK /\ (at[p] = "401" => Cause(p))
      BY <1>2, <1>3 DEF IInv
    <3>2. CASE \/ Verify(p) \/ VerifyRaises(p) \/ GetDel(p) \/ Get(p)
               \/ FallbackRaises(p)
      BY <1>3, <2>1, <3>2, NewRefusal
    <3>3. CASE /\ at[p] = "401"
               /\ kind'[p] = kind[p] /\ credential'[p] = credential[p]
      BY <1>3, <3>1, <3>3, OldRefusal
    <3> QED BY <1>3, <2>1, <3>1, <3>2, <3>3, WhoRefuses
  <2>2. (\A p \in Procs : at[p] = "401" => Cause(p))'
    BY <2>1
  <2> QED BY <2>2 DEF RefusalHasACause, Cause
<1> QED BY <1>1, <1>3, IInvHolds, PTL DEF Spec
=============================================================================
