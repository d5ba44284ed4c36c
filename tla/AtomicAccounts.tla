--------------------------- MODULE AtomicAccounts ---------------------------
(***************************************************************************)
(* What the configuration promises of accounts, without keys and the order *)
(* in which they are written: an account is there with both its servers or *)
(* not at all, the death of the program included.  A change that the       *)
(* program died in has happened or not, and leaves at most the default     *)
(* account to be chosen; without a fault nothing of it is left undone.     *)
(***************************************************************************)
EXTENDS Naturals

CONSTANTS Names, NoName

VARIABLES
    whole,   \* the accounts that are enabled, with both servers
    broken,  \* accounts saved with a write that failed
    default, \* the default account
    faults   \* how often the program died or something failed

vars == <<whole, broken, default, faults>>

Init == whole = {} /\ broken = {} /\ default = NoName /\ faults = 0

There == whole \union broken

\* The first account is the default one.
Chosen(n) == IF default = NoName THEN n ELSE default

NoFault == faults' = faults
Fault   == faults' = faults + 1

\* All of it is written, whatever else fails.
Add(n) ==
    /\ NoFault \/ Fault
    /\ default' = Chosen(n)
    /\ n \notin There
    /\ whole' = whole \union {n}
    /\ UNCHANGED broken

AddBroken(n) ==
    /\ Fault
    /\ default' = Chosen(n)
    /\ n \notin There
    /\ broken' = broken \union {n}
    /\ UNCHANGED whole

\* While accounts are left that are whole, one of those that are there is the
\* default account after the default one was removed.
Remove(n) ==
    /\ NoFault
    /\ default # n => UNCHANGED default
    /\ n \in There
    /\ whole' = whole \ {n}
    /\ broken' = broken \ {n}
    /\ default = n => \/ default' \in There'
                      \/ default' = NoName /\ whole' = {}

SetDefault(n) ==
    /\ NoFault
    /\ default' = n
    /\ n \in There
    /\ UNCHANGED <<whole, broken>>

\* The program dies when all but the default account is written.
DieInAdd(n) ==
    /\ Fault
    /\ default = NoName
    /\ n \notin There
    /\ whole' = whole \union {n}
    /\ UNCHANGED <<broken, default>>

\* It dies, before or after another default account is chosen, or goes on with
\* keys that could not be removed.
FaultInRemove(n) ==
    /\ Fault
    /\ n \in There
    /\ whole' \in {whole, whole \ {n}}
    /\ broken' \in {broken, broken \ {n}}
    /\ IF default = n THEN default' \in There' \union {NoName}
                      ELSE UNCHANGED default

\* It dies or something fails, and nothing happens to the accounts.
OtherFault ==
    /\ Fault
    /\ UNCHANGED <<whole, broken, default>>

Next ==
    \/ OtherFault
    \/ \E n \in Names :
         \/ Add(n) \/ AddBroken(n) \/ Remove(n) \/ SetDefault(n)
         \/ DieInAdd(n) \/ FaultInRemove(n)

Safety == Init /\ [][Next]_vars
=============================================================================
