--------------------------- MODULE MCAccountStore ---------------------------
(* The accounts of the configuration, and the updates of one of them, in    *)
(* one run: each is a specification of its own with its own state, and a    *)
(* behaviour is one of either, as chosen at the start.  The other does not  *)
(* move.                                                                    *)
EXTENDS AccountStore, MCUpdateAccount

VARIABLE part   \* "accounts" or "update"

BothInit ==
    /\ AccountsInit /\ Init
    /\ part \in {"accounts", "update"}
    /\ part = "accounts" => known = {}

\* Mail is being sent, or was when an account was removed.
MailUnderWay == making \union sending \union history.outlived # {}

\* Bound: nothing fails while mail is under way.
BothNext ==
    /\ UNCHANGED part
    /\ \/ /\ part = "accounts"
          /\ MailUnderWay => UNCHANGED faults
          /\ AccountsNext
          /\ UNCHANGED vars
       \/ part = "update" /\ Next /\ UNCHANGED accountVars

BothSpec == BothInit /\ [][BothNext]_<<part, accountVars, vars>>

\* One name of accounts is in use.
OneName == Cardinality({n \in Names : made[n] > 0 \/ entry[n].key}) <= 1

\* Bound: at most two transport accounts are being disconnected, as when the last
\* remote account is removed, mail waits in one outbox and one mail is being sent.
\* Mail is under way, or waits after a fault, while one name is in use; and nobody
\* asks whether there are accounts while it is under way.
FewAtOnce ==
    /\ Cardinality(leaving) <= 2
    /\ Cardinality(mail) <= 1
    /\ Cardinality(making) + Cardinality(sending) <= 1
    /\ MailUnderWay => faults = 0 /\ ~hasCache["enabled"]
    /\ MailUnderWay \/ (mail # {} /\ faults > 0) => OneName

BothSymmetry == Permutations(Names) \union UpdateSymmetry
=============================================================================
