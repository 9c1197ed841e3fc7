--------------------------- MODULE AccountIdentity ---------------------------
(* What the accounts promise about e-mail addresses, whatever calls, mails *)
(* and sign-ins overlap: an address belongs to one account at a time; an   *)
(* account moves only to an address somebody has answered for (its mailbox *)
(* has received a code, a provider's token has carried it, or an           *)
(* administrator has typed it); and an address is shown as confirmed only  *)
(* when somebody has answered for it or an Apple client has claimed it,    *)
(* which no more than its own word stands for.                             *)
EXTENDS Naturals

CONSTANTS Addresses, Accounts

VARIABLES
    holder,     \* [Addresses -> the accounts that hold it]
    confirmed,  \* the addresses shown as verified
    proved,     \* the addresses somebody has answered for
    claimed     \* the addresses an Apple client has named

vars == <<holder, confirmed, proved, claimed>>

Init ==
    /\ DOMAIN holder = Addresses
    /\ \A a, b \in Addresses, u, v \in Accounts :
          u \in holder[a] /\ v \in holder[b] => (u = v <=> a = b)
    /\ confirmed = {} /\ proved = {} /\ claimed = {}

(* A mail arrives, a provider or an administrator answers.                 *)
Prove(a) ==
    /\ proved' = proved \cup {a}
    /\ UNCHANGED <<holder, confirmed, claimed>>

(* A client signs in with Apple and says that this is its address.         *)
Say(a) ==
    /\ claimed' = claimed \cup {a}
    /\ UNCHANGED <<holder, confirmed, proved>>

(* A new account, or one without an address, takes a free one.             *)
Claim(u, a) ==
    /\ holder[a] = {}
    /\ \A b \in Addresses : u \notin holder[b]
    /\ holder' = [holder EXCEPT ![a] = {u}]
    /\ confirmed' \in {confirmed, confirmed \cup ({a} \cap (proved \cup claimed))}
    /\ UNCHANGED <<proved, claimed>>

(* An account moves to a free address somebody has answered for, and takes *)
(* its confirmation with it.                                               *)
Move(u, a, b) ==
    /\ holder[a] = {u} /\ holder[b] = {}
    /\ b \in proved
    /\ holder' = [holder EXCEPT ![a] = {}, ![b] = {u}]
    /\ confirmed' = (confirmed \ {a}) \cup (IF a \in confirmed THEN {b} ELSE {})
    /\ UNCHANGED <<proved, claimed>>

Release(a) ==
    /\ holder' = [holder EXCEPT ![a] = {}]
    /\ confirmed' = confirmed \ {a}
    /\ UNCHANGED <<proved, claimed>>

Confirm(a) ==
    /\ holder[a] # {}
    /\ a \in proved \cup claimed
    /\ confirmed' = confirmed \cup {a}
    /\ UNCHANGED <<holder, proved, claimed>>

Next ==
    \/ \E a \in Addresses : Prove(a) \/ Say(a) \/ Release(a) \/ Confirm(a)
    \/ \E u \in Accounts, a \in Addresses :
          Claim(u, a) \/ \E b \in Addresses \ {a} : Move(u, a, b)

Spec == Init /\ [][Next]_vars
=============================================================================
