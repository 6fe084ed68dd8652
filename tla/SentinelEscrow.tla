--------------------------- MODULE SentinelEscrow ---------------------------
(***************************************************************************)
(* What the SentinelOracle promises about the money of a request: it is     *)
(* held until the request is settled; what is then left is exactly what the *)
(* bonded sentinels are owed; each is paid once; nobody loses more than the *)
(* slash. How the shares come about is the contract's business.             *)
(***************************************************************************)
EXTENDS Integers, FiniteSetsExt

CONSTANTS Sentinels, Slash

VARIABLES
    phase,      \* "none", "open", "disputed" or "settled"
    held,       \* what the request's escrow holds
    bonds,      \* [Sentinels -> Nat]: bonds that were not returned yet
    owed        \* [Sentinels -> Nat]: fixed when the request is settled

escrowVars == <<phase, held, bonds, owed>>

Nothing == [s \in Sentinels |-> 0]
Total(amounts) == MapThenSumSet(LAMBDA s : amounts[s], Sentinels)

Init == phase = "none" /\ held = 0 /\ bonds = Nothing /\ owed = Nothing

Open ==
    /\ phase = "none" /\ phase' = "open"
    /\ held' > held
    /\ UNCHANGED <<bonds, owed>>

Deposit ==
    /\ phase = "open"
    /\ \E s \in Sentinels :
          /\ bonds[s] = 0 /\ bonds' = [bonds EXCEPT ![s] = held' - held]
    /\ held' > held
    /\ UNCHANGED <<phase, owed>>

\* Some of the bonds are forfeited ahead of the settlement.
Dispute ==
    /\ phase = "open" /\ phase' = "disputed"
    /\ held' \in 0 .. held
    /\ UNCHANGED <<bonds, owed>>

Settle ==
    /\ phase \in {"open", "disputed"} /\ phase' = "settled"
    /\ held' \in 0 .. held
    /\ Total(owed') = held'
    /\ \A s \in Sentinels : IF bonds[s] = 0 THEN owed'[s] = 0 ELSE owed'[s] >= bonds[s] - Slash
    /\ UNCHANGED bonds

Withdraw ==
    /\ phase = "settled"
    /\ \E s \in Sentinels :
          /\ bonds[s] > 0
          /\ bonds' = [bonds EXCEPT ![s] = 0]
          /\ owed' = [owed EXCEPT ![s] = 0]
          /\ held' = held - owed[s]
    /\ UNCHANGED phase

Next == Open \/ Deposit \/ Dispute \/ Settle \/ Withdraw
=============================================================================
