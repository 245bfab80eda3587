----------------------------- MODULE UpstreamPool -----------------------------
(***************************************************************************)
(* What the upstream pool promises to the coordinator: the interface       *)
(* UpstreamPool of packages/cache-relay/src/upstream/upstream-types.ts.    *)
(*                                                                         *)
(* An open subscription lets events through.  Opening one makes the pool   *)
(* owe one aggregated EOSE; closing it, or stopping the pool, cancels the  *)
(* debt, firing pays it.  One step may pay several debts, because a relay  *)
(* going away can complete several aggregates at once.                     *)
(***************************************************************************)
EXTENDS Naturals

CONSTANT UpIds          \* the opaque upstream subscription ids

VARIABLES
  poolStopped,          \* between stop() and the next start()
  open,                 \* subscriptions on which upstream events arrive
  owing,                \* subscriptions whose aggregated EOSE is still to come
  fired                 \* aggregated EOSEs since the subscription was last opened

poolVars == <<poolStopped, open, owing, fired>>

PoolInit ==
  /\ poolStopped = FALSE
  /\ open = {}
  /\ owing = {}
  /\ fired = [u \in UpIds |-> 0]

(* openSubscription(u), after closing the subscriptions `replaced`.  A     *)
(* stopped pool ignores the call; an empty filter list sends no REQ, but   *)
(* still owes the EOSE.                                                    *)
PoolOpen(u, replaced, hasFilters) ==
  IF poolStopped
    THEN /\ open' = open \ replaced
         /\ owing' = owing \ replaced
         /\ UNCHANGED <<poolStopped, fired>>
    ELSE /\ open' = IF hasFilters THEN (open \ replaced) \cup {u}
                                  ELSE open \ (replaced \cup {u})
         /\ owing' = (owing \ replaced) \cup {u}
         /\ fired' = [fired EXCEPT ![u] = 0]
         /\ UNCHANGED poolStopped

PoolClose(S) ==
  /\ open' = open \ S
  /\ owing' = owing \ S
  /\ UNCHANGED <<poolStopped, fired>>

(* onEose: every relay that was connected at openSubscription time has     *)
(* answered or gone.                                                       *)
PoolFire(S) ==
  /\ S # {}
  /\ S \subseteq owing
  /\ owing' = owing \ S
  /\ fired' = [u \in UpIds |-> IF u \in S THEN fired[u] + 1 ELSE fired[u]]
  /\ UNCHANGED <<poolStopped, open>>

PoolStart ==
  /\ poolStopped' = FALSE
  /\ UNCHANGED <<open, owing, fired>>

PoolStop ==
  /\ poolStopped' = TRUE
  /\ open' = {}
  /\ owing' = {}
  /\ UNCHANGED fired

PoolNext ==
  \/ \E u \in UpIds, S \in SUBSET UpIds, hasFilters \in BOOLEAN :
       PoolOpen(u, S, hasFilters)
  \/ \E S \in SUBSET UpIds : PoolClose(S) \/ PoolFire(S)
  \/ PoolStart
  \/ PoolStop

PoolSpec == PoolInit /\ [][PoolNext]_poolVars
=============================================================================
