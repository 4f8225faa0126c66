--------------------------- MODULE ChargeAccounts ---------------------------
(***************************************************************************)
(* What collecting money on charges promises to a center, with no lock, no *)
(* cached total and no transaction in sight: each account is opened with a *)
(* net fee, takes money only while it is open and, unless the center       *)
(* allows overpayment, never beyond what is left to pay; it gives back no  *)
(* more than it holds; and every movement prints the next receipt.         *)
(***************************************************************************)
EXTENDS Integers

CONSTANTS Charge, Amount, Fee, AllowOverpayment

VARIABLES
    account,   \* the account of each charge
    receipts   \* how many receipts the center has printed

vars == <<account, receipts>>

Account == [net : Int, held : Int, closed : BOOLEAN]

NoAccount == [net |-> "NO ACCOUNT"]

Exists(c) == account[c] # NoAccount

IsOpen(c) == Exists(c) /\ ~account[c].closed

Init ==
    /\ account = [c \in Charge |-> NoAccount]
    /\ receipts = 0

Open(c, fee) ==
    /\ ~Exists(c)
    /\ account' = [account EXCEPT ![c] = [net |-> fee, held |-> 0, closed |-> FALSE]]
    /\ UNCHANGED receipts

Collect(c, amount) ==
    /\ IsOpen(c)
    /\ AllowOverpayment \/ account[c].held + amount <= account[c].net
    /\ account' = [account EXCEPT ![c].held = @ + amount]
    /\ receipts' = receipts + 1

GiveBack(c, amount) ==
    /\ IsOpen(c)
    /\ amount <= account[c].held
    /\ account' = [account EXCEPT ![c].held = @ - amount]
    /\ receipts' = receipts + 1

\* Waived or cancelled by hand.
Close(c) ==
    /\ IsOpen(c)
    /\ account' = [account EXCEPT ![c].closed = TRUE]
    /\ UNCHANGED receipts

Next ==
    \E c \in Charge :
        \/ \E fee \in Fee : Open(c, fee)
        \/ \E amount \in Amount : Collect(c, amount) \/ GiveBack(c, amount)
        \/ Close(c)

Spec == Init /\ [][Next]_vars
=============================================================================
