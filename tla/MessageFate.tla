----------------------------- MODULE MessageFate -----------------------------
(***************************************************************************)
(* What the broker and the retry helper promise for each message of a      *)
(* stream, without groups, pending lists, batches or attempts:             *)
(* at-most-once delivery.  A published message waits until it is trimmed,  *)
(* passed by, or handed to one worker; that worker settles it, or exits    *)
(* and leaves it stranded.  "lost", "settled" and "stranded" are final.    *)
(***************************************************************************)
CONSTANTS Workers, Msgs

VARIABLES
    fate,   \* what has become of each message
    owner   \* the worker that has it in hand, or "nobody"

Moves ==
    {<<"absent", "waiting">>,
     <<"waiting", "lost">>,
     <<"waiting", "inflight">>,
     <<"waiting", "stranded">>,   \* assigned to a worker that never saw it
     <<"inflight", "settled">>,
     <<"inflight", "stranded">>}

Init ==
    /\ fate = [m \in Msgs |-> "absent"]
    /\ owner = [m \in Msgs |-> "nobody"]

\* Messages move together when one call of the broker concerns several.
Move ==
    /\ fate' \in [Msgs -> {"absent", "waiting", "lost", "inflight",
                           "settled", "stranded"}]
    /\ owner' \in [Msgs -> Workers \cup {"nobody"}]
    /\ \A m \in Msgs :
          /\ \/ UNCHANGED <<fate[m], owner[m]>>
             \/ <<fate[m], fate'[m]>> \in Moves
          /\ fate'[m] = "inflight" <=> owner'[m] # "nobody"

Spec == Init /\ [][Move]_<<fate, owner>>
=============================================================================
