----------------------------- MODULE AccountsProofs -----------------------------
(***************************************************************************)
(* Accounts implements AccountIdentity, for any number of addresses,       *)
(* accounts and calls in flight, with failures and lost or repeated mails. *)
(*                                                                         *)
(* The argument is one about addresses.  A call may find that the account  *)
(* it has read has moved since; but an account moves only to addresses     *)
(* somebody has answered for, so whatever the account has by then is       *)
(* either what the call read or answered for.  The same holds of a code    *)
(* that was stored under another address than it is mailed to.             *)
(*                                                                         *)
(* What an Apple client types is no answer: such an address may be linked  *)
(* and confirmed (Claimed), but accounts move only to Reached.  A used     *)
(* code stays with its request until it is deleted or the request fails.   *)
(***************************************************************************)
EXTENDS Accounts, SequenceTheorems, TLAPS

(* The calls still to make, from the first to the last.                    *)
ToCreate == <<"create", "code", "mail">>
ToCode == <<"code", "mail">>
ToMail == <<"mail">>
ToValidate == <<"validate", "verify">>
ToVerify == <<"verify">>
ToReset == <<"validate", "rekey", "spend">>
ToRekeySpend == <<"rekey", "spend">>
ToSpend == <<"spend">>
ToValidateNew == <<"validateNew", "move", "spend">>
ToMoveSpend == <<"move", "spend">>
ToMove == <<"move">>
ToChangePassword == <<"compare", "rekey">>
ToRekey == <<"rekey">>
ToBury == <<"bury">>
ToSupport == <<"support">>
ToStore == <<"store">>
ToMatch == <<"match">>
ToAdopt == <<"adopt", "store">>
ToLink == <<"link", "store">>
ToLogin == <<"compare", "store">>
ToLogin2 == <<"compare", "login", "store">>
ToFactor == <<"login", "store">>
ToDrop == <<"drop">>
ToGenerate == <<"generate">>
ToEnable == <<"enable">>
ToDisable == <<"disable">>

Todos ==
    { <<>>, ToCreate, ToCode, ToMail, ToValidate, ToVerify,
      ToReset, ToRekeySpend, ToSpend, ToValidateNew, ToMoveSpend,
      ToMove, ToChangePassword, ToRekey, ToBury, ToSupport,
      ToStore, ToMatch, ToAdopt, ToLink, ToLogin,
      ToLogin2, ToFactor, ToDrop, ToGenerate, ToEnable,
      ToDisable }

Nowhere == {None, Unreachable}

(* Addresses somebody has answered for, or an Apple client has named.      *)
Claimed == Reached \cup typed

(* What a call knows when t is what it still has to do: us and uc are the  *)
(* tables, reached the addresses answered for, claimed those and the ones  *)
(* Apple clients named, received the codes.                                *)
Knows(us, uc, reached, claimed, received, t, c) ==
    LET At0(a) == \* the account has the address a, or one answered for
            us[c.user].email \in {a} \cup reached \cup Nowhere
        Stored == c.code \in DOMAIN uc /\ uc[c.code].email \in {c.email} \cup reached \cup Nowhere
    IN /\ t \in Todos
       /\ t \in {ToCreate, ToValidate, ToReset, ToRekeySpend, ToSpend, ToValidateNew,
                 ToMoveSpend, ToMove, ToMatch} => c.email \in Addresses
       /\ t = ToCreate => c.under = None /\ c.code = 0
       /\ t = ToCode => c.code = 0 /\ c.under \in {None, c.email}
       /\ t = ToCode /\ c.under = None => c.user \in DOMAIN us /\ At0(c.email)
       /\ t = ToMail /\ c.code # 0 => Stored
       /\ t \in {ToValidate, ToReset, ToValidateNew} => c.code \in received
       /\ t = ToValidate => c.user \in DOMAIN us /\ At0(c.email)
       /\ t = ToVerify => c.user \in DOMAIN us /\ us[c.user].email \in reached \cup Nowhere
       /\ t = ToLink => c.user \in DOMAIN us /\ us[c.user].email \in claimed \cup Nowhere
       /\ t \in {ToRekeySpend, ToSpend, ToMoveSpend} => c.code \in DOMAIN uc
       /\ t \in {ToMoveSpend, ToMove} => c.email \in reached
       /\ t = ToMatch => c.email \in claimed
       /\ t = ToAdopt => c.email \in claimed \cup {None}
       /\ t \in {ToMatch, ToAdopt, ToLink} => c.subject \in Subjects
       /\ t \in {ToMove, ToChangePassword, ToRekey} => c.code = 0

CallsKnow ==
    \A h \in Handlers : Knows(users, ucodes, Reached, Claimed, Received, call[h].todo, call[h])

Unique ==
    \A u, v \in Present : users[u].email = users[v].email /\ users[u].email \in Addresses => u = v

CodesHaveAddresses == \A c \in DOMAIN ucodes : ucodes[c].email # None

(* A code that is mailed, or about to be, opens the address it is mailed   *)
(* to or one that has been answered for.                                   *)
JobsOpenProved ==
    \A job \in mailQueue : job.name = "sendOtpCodeToEmail" /\ job.code # 0 =>
        /\ job.code \in DOMAIN ucodes
        /\ ucodes[job.code].email \in {job.to} \cup Reached \cup Nowhere

MailsOpenProved ==
    \A m \in inbox :
        /\ m[2] \in DOMAIN ucodes
        /\ ucodes[m[2]].email \in Reached \cup Nowhere

(* What has been used, and what was then left behind, are mailed codes.    *)
Spendings == used \subseteq Addresses \X Nat /\ cut \subseteq Addresses \X Nat

IInv ==
    /\ TypeOK
    /\ Len(users) <= MaxAccounts
    /\ CallsKnow
    /\ Unique
    /\ CodesHaveAddresses
    /\ JobsOpenProved
    /\ MailsOpenProved

---------------------------------------------------------------------------
(* Sequences and calls *)

LEMMA TodosAreSteps == Todos \subseteq Seq(Steps)
<1>1. <<>> \in Seq(Steps)
  OBVIOUS
<1>2. ToCreate \in Seq(Steps)
  BY DEF Steps, ToCreate
<1>3. ToCode \in Seq(Steps)
  BY DEF Steps, ToCode
<1>4. ToMail \in Seq(Steps)
  BY DEF Steps, ToMail
<1>5. ToValidate \in Seq(Steps)
  BY DEF Steps, ToValidate
<1>6. ToVerify \in Seq(Steps)
  BY DEF Steps, ToVerify
<1>7. ToReset \in Seq(Steps)
  BY DEF Steps, ToReset
<1>8. ToRekeySpend \in Seq(Steps)
  BY DEF Steps, ToRekeySpend
<1>9. ToSpend \in Seq(Steps)
  BY DEF Steps, ToSpend
<1>10. ToValidateNew \in Seq(Steps)
  BY DEF Steps, ToValidateNew
<1>11. ToMoveSpend \in Seq(Steps)
  BY DEF Steps, ToMoveSpend
<1>12. ToMove \in Seq(Steps)
  BY DEF Steps, ToMove
<1>13. ToChangePassword \in Seq(Steps)
  BY DEF Steps, ToChangePassword
<1>14. ToRekey \in Seq(Steps)
  BY DEF Steps, ToRekey
<1>15. ToBury \in Seq(Steps)
  BY DEF Steps, ToBury
<1>16. ToSupport \in Seq(Steps)
  BY DEF Steps, ToSupport
<1>17. ToStore \in Seq(Steps)
  BY DEF Steps, ToStore
<1>18. ToMatch \in Seq(Steps)
  BY DEF Steps, ToMatch
<1>19. ToAdopt \in Seq(Steps)
  BY DEF Steps, ToAdopt
<1>20. ToLink \in Seq(Steps)
  BY DEF Steps, ToLink
<1>21. ToLogin \in Seq(Steps)
  BY DEF Steps, ToLogin
<1>22. ToLogin2 \in Seq(Steps)
  BY DEF Steps, ToLogin2
<1>23. ToFactor \in Seq(Steps)
  BY DEF Steps, ToFactor
<1>24. ToDrop \in Seq(Steps)
  BY DEF Steps, ToDrop
<1>25. ToGenerate \in Seq(Steps)
  BY DEF Steps, ToGenerate
<1>26. ToEnable \in Seq(Steps)
  BY DEF Steps, ToEnable
<1>27. ToDisable \in Seq(Steps)
  BY DEF Steps, ToDisable
<1> QED
  BY <1>1, <1>2, <1>3, <1>4, <1>5, <1>6, <1>7, <1>8, <1>9, <1>10,
     <1>11, <1>12, <1>13, <1>14, <1>15, <1>16, <1>17, <1>18,
     <1>19, <1>20, <1>21, <1>22, <1>23, <1>24, <1>25, <1>26,
     <1>27
  DEF Todos

(* The first step of each, and what is left after it.                      *)
LEMMA Tails ==
    /\ ToCreate # <<>> /\ Head(ToCreate) = "create" /\ Tail(ToCreate) = ToCode /\ Len(ToCreate) = 3
    /\ ToCode # <<>> /\ Head(ToCode) = "code" /\ Tail(ToCode) = ToMail /\ Len(ToCode) = 2
    /\ ToMail # <<>> /\ Head(ToMail) = "mail" /\ Tail(ToMail) = <<>> /\ Len(ToMail) = 1
    /\ ToValidate # <<>> /\ Head(ToValidate) = "validate" /\ Tail(ToValidate) = ToVerify /\ Len(ToValidate) = 2
    /\ ToVerify # <<>> /\ Head(ToVerify) = "verify" /\ Tail(ToVerify) = <<>> /\ Len(ToVerify) = 1
    /\ ToReset # <<>> /\ Head(ToReset) = "validate" /\ Tail(ToReset) = ToRekeySpend /\ Len(ToReset) = 3
    /\ ToRekeySpend # <<>> /\ Head(ToRekeySpend) = "rekey" /\ Tail(ToRekeySpend) = ToSpend /\ Len(ToRekeySpend) = 2
    /\ ToSpend # <<>> /\ Head(ToSpend) = "spend" /\ Tail(ToSpend) = <<>> /\ Len(ToSpend) = 1
    /\ ToValidateNew # <<>> /\ Head(ToValidateNew) = "validateNew" /\ Tail(ToValidateNew) = ToMoveSpend /\ Len(ToValidateNew) = 3
    /\ ToMoveSpend # <<>> /\ Head(ToMoveSpend) = "move" /\ Tail(ToMoveSpend) = ToSpend /\ Len(ToMoveSpend) = 2
    /\ ToMove # <<>> /\ Head(ToMove) = "move" /\ Tail(ToMove) = <<>> /\ Len(ToMove) = 1
    /\ ToChangePassword # <<>> /\ Head(ToChangePassword) = "compare" /\ Tail(ToChangePassword) = ToRekey /\ Len(ToChangePassword) = 2
    /\ ToRekey # <<>> /\ Head(ToRekey) = "rekey" /\ Tail(ToRekey) = <<>> /\ Len(ToRekey) = 1
    /\ ToBury # <<>> /\ Head(ToBury) = "bury" /\ Tail(ToBury) = <<>> /\ Len(ToBury) = 1
    /\ ToSupport # <<>> /\ Head(ToSupport) = "support" /\ Tail(ToSupport) = <<>> /\ Len(ToSupport) = 1
    /\ ToStore # <<>> /\ Head(ToStore) = "store" /\ Tail(ToStore) = <<>> /\ Len(ToStore) = 1
    /\ ToMatch # <<>> /\ Head(ToMatch) = "match" /\ Tail(ToMatch) = <<>> /\ Len(ToMatch) = 1
    /\ ToAdopt # <<>> /\ Head(ToAdopt) = "adopt" /\ Tail(ToAdopt) = ToStore /\ Len(ToAdopt) = 2
    /\ ToLink # <<>> /\ Head(ToLink) = "link" /\ Tail(ToLink) = ToStore /\ Len(ToLink) = 2
    /\ ToLogin # <<>> /\ Head(ToLogin) = "compare" /\ Tail(ToLogin) = ToStore /\ Len(ToLogin) = 2
    /\ ToLogin2 # <<>> /\ Head(ToLogin2) = "compare" /\ Tail(ToLogin2) = ToFactor /\ Len(ToLogin2) = 3
    /\ ToFactor # <<>> /\ Head(ToFactor) = "login" /\ Tail(ToFactor) = ToStore /\ Len(ToFactor) = 2
    /\ ToDrop # <<>> /\ Head(ToDrop) = "drop" /\ Tail(ToDrop) = <<>> /\ Len(ToDrop) = 1
    /\ ToGenerate # <<>> /\ Head(ToGenerate) = "generate" /\ Tail(ToGenerate) = <<>> /\ Len(ToGenerate) = 1
    /\ ToEnable # <<>> /\ Head(ToEnable) = "enable" /\ Tail(ToEnable) = <<>> /\ Len(ToEnable) = 1
    /\ ToDisable # <<>> /\ Head(ToDisable) = "disable" /\ Tail(ToDisable) = <<>> /\ Len(ToDisable) = 1
<1>1. ToCreate # <<>> /\ Head(ToCreate) = "create" /\ Tail(ToCreate) = ToCode /\ Len(ToCreate) = 3
  BY DEF ToCreate, ToCode
<1>2. ToCode # <<>> /\ Head(ToCode) = "code" /\ Tail(ToCode) = ToMail /\ Len(ToCode) = 2
  BY DEF ToCode, ToMail
<1>3. ToMail # <<>> /\ Head(ToMail) = "mail" /\ Tail(ToMail) = <<>> /\ Len(ToMail) = 1
  BY DEF ToMail
<1>4. ToValidate # <<>> /\ Head(ToValidate) = "validate" /\ Tail(ToValidate) = ToVerify /\ Len(ToValidate) = 2
  BY DEF ToValidate, ToVerify
<1>5. ToVerify # <<>> /\ Head(ToVerify) = "verify" /\ Tail(ToVerify) = <<>> /\ Len(ToVerify) = 1
  BY DEF ToVerify
<1>6. ToReset # <<>> /\ Head(ToReset) = "validate" /\ Tail(ToReset) = ToRekeySpend /\ Len(ToReset) = 3
  BY DEF ToReset, ToRekeySpend
<1>7. ToRekeySpend # <<>> /\ Head(ToRekeySpend) = "rekey" /\ Tail(ToRekeySpend) = ToSpend /\ Len(ToRekeySpend) = 2
  BY DEF ToRekeySpend, ToSpend
<1>8. ToSpend # <<>> /\ Head(ToSpend) = "spend" /\ Tail(ToSpend) = <<>> /\ Len(ToSpend) = 1
  BY DEF ToSpend
<1>9. ToValidateNew # <<>> /\ Head(ToValidateNew) = "validateNew" /\ Tail(ToValidateNew) = ToMoveSpend /\ Len(ToValidateNew) = 3
  BY DEF ToValidateNew, ToMoveSpend
<1>10. ToMoveSpend # <<>> /\ Head(ToMoveSpend) = "move" /\ Tail(ToMoveSpend) = ToSpend /\ Len(ToMoveSpend) = 2
  BY DEF ToMoveSpend, ToSpend
<1>11. ToMove # <<>> /\ Head(ToMove) = "move" /\ Tail(ToMove) = <<>> /\ Len(ToMove) = 1
  BY DEF ToMove
<1>12. ToChangePassword # <<>> /\ Head(ToChangePassword) = "compare" /\ Tail(ToChangePassword) = ToRekey /\ Len(ToChangePassword) = 2
  BY DEF ToChangePassword, ToRekey
<1>13. ToRekey # <<>> /\ Head(ToRekey) = "rekey" /\ Tail(ToRekey) = <<>> /\ Len(ToRekey) = 1
  BY DEF ToRekey
<1>14. ToBury # <<>> /\ Head(ToBury) = "bury" /\ Tail(ToBury) = <<>> /\ Len(ToBury) = 1
  BY DEF ToBury
<1>15. ToSupport # <<>> /\ Head(ToSupport) = "support" /\ Tail(ToSupport) = <<>> /\ Len(ToSupport) = 1
  BY DEF ToSupport
<1>16. ToStore # <<>> /\ Head(ToStore) = "store" /\ Tail(ToStore) = <<>> /\ Len(ToStore) = 1
  BY DEF ToStore
<1>17. ToMatch # <<>> /\ Head(ToMatch) = "match" /\ Tail(ToMatch) = <<>> /\ Len(ToMatch) = 1
  BY DEF ToMatch
<1>18. ToAdopt # <<>> /\ Head(ToAdopt) = "adopt" /\ Tail(ToAdopt) = ToStore /\ Len(ToAdopt) = 2
  BY DEF ToAdopt, ToStore
<1>19. ToLink # <<>> /\ Head(ToLink) = "link" /\ Tail(ToLink) = ToStore /\ Len(ToLink) = 2
  BY DEF ToLink, ToStore
<1>20. ToLogin # <<>> /\ Head(ToLogin) = "compare" /\ Tail(ToLogin) = ToStore /\ Len(ToLogin) = 2
  BY DEF ToLogin, ToStore
<1>21. ToLogin2 # <<>> /\ Head(ToLogin2) = "compare" /\ Tail(ToLogin2) = ToFactor /\ Len(ToLogin2) = 3
  BY DEF ToLogin2, ToFactor
<1>22. ToFactor # <<>> /\ Head(ToFactor) = "login" /\ Tail(ToFactor) = ToStore /\ Len(ToFactor) = 2
  BY DEF ToFactor, ToStore
<1>23. ToDrop # <<>> /\ Head(ToDrop) = "drop" /\ Tail(ToDrop) = <<>> /\ Len(ToDrop) = 1
  BY DEF ToDrop
<1>24. ToGenerate # <<>> /\ Head(ToGenerate) = "generate" /\ Tail(ToGenerate) = <<>> /\ Len(ToGenerate) = 1
  BY DEF ToGenerate
<1>25. ToEnable # <<>> /\ Head(ToEnable) = "enable" /\ Tail(ToEnable) = <<>> /\ Len(ToEnable) = 1
  BY DEF ToEnable
<1>26. ToDisable # <<>> /\ Head(ToDisable) = "disable" /\ Tail(ToDisable) = <<>> /\ Len(ToDisable) = 1
  BY DEF ToDisable
<1> QED
  BY <1>1, <1>2, <1>3, <1>4, <1>5, <1>6, <1>7, <1>8, <1>9, <1>10,
     <1>11, <1>12, <1>13, <1>14, <1>15, <1>16, <1>17, <1>18,
     <1>19, <1>20, <1>21, <1>22, <1>23, <1>24, <1>25, <1>26

(* Head and length tell the lists apart.                                   *)
LEMMA Firsts ==
    /\ ToCreate # <<>> /\ Head(ToCreate) = "create" /\ Len(ToCreate) = 3
    /\ ToCode # <<>> /\ Head(ToCode) = "code" /\ Len(ToCode) = 2
    /\ ToMail # <<>> /\ Head(ToMail) = "mail" /\ Len(ToMail) = 1
    /\ ToValidate # <<>> /\ Head(ToValidate) = "validate" /\ Len(ToValidate) = 2
    /\ ToVerify # <<>> /\ Head(ToVerify) = "verify" /\ Len(ToVerify) = 1
    /\ ToReset # <<>> /\ Head(ToReset) = "validate" /\ Len(ToReset) = 3
    /\ ToRekeySpend # <<>> /\ Head(ToRekeySpend) = "rekey" /\ Len(ToRekeySpend) = 2
    /\ ToSpend # <<>> /\ Head(ToSpend) = "spend" /\ Len(ToSpend) = 1
    /\ ToValidateNew # <<>> /\ Head(ToValidateNew) = "validateNew" /\ Len(ToValidateNew) = 3
    /\ ToMoveSpend # <<>> /\ Head(ToMoveSpend) = "move" /\ Len(ToMoveSpend) = 2
    /\ ToMove # <<>> /\ Head(ToMove) = "move" /\ Len(ToMove) = 1
    /\ ToChangePassword # <<>> /\ Head(ToChangePassword) = "compare" /\ Len(ToChangePassword) = 2
    /\ ToRekey # <<>> /\ Head(ToRekey) = "rekey" /\ Len(ToRekey) = 1
    /\ ToBury # <<>> /\ Head(ToBury) = "bury" /\ Len(ToBury) = 1
    /\ ToSupport # <<>> /\ Head(ToSupport) = "support" /\ Len(ToSupport) = 1
    /\ ToStore # <<>> /\ Head(ToStore) = "store" /\ Len(ToStore) = 1
    /\ ToMatch # <<>> /\ Head(ToMatch) = "match" /\ Len(ToMatch) = 1
    /\ ToAdopt # <<>> /\ Head(ToAdopt) = "adopt" /\ Len(ToAdopt) = 2
    /\ ToLink # <<>> /\ Head(ToLink) = "link" /\ Len(ToLink) = 2
    /\ ToLogin # <<>> /\ Head(ToLogin) = "compare" /\ Len(ToLogin) = 2
    /\ ToLogin2 # <<>> /\ Head(ToLogin2) = "compare" /\ Len(ToLogin2) = 3
    /\ ToFactor # <<>> /\ Head(ToFactor) = "login" /\ Len(ToFactor) = 2
    /\ ToDrop # <<>> /\ Head(ToDrop) = "drop" /\ Len(ToDrop) = 1
    /\ ToGenerate # <<>> /\ Head(ToGenerate) = "generate" /\ Len(ToGenerate) = 1
    /\ ToEnable # <<>> /\ Head(ToEnable) = "enable" /\ Len(ToEnable) = 1
    /\ ToDisable # <<>> /\ Head(ToDisable) = "disable" /\ Len(ToDisable) = 1
BY Tails

(* Each of those a call must know something for is none of the others.     *)
LEMMA Distinct ==
    /\ ToCreate \notin {ToCode, ToMail, ToValidate, ToVerify, ToReset,
                        ToRekeySpend, ToSpend, ToValidateNew, ToMoveSpend,
                        ToMove, ToMatch, ToAdopt, ToLink, ToChangePassword,
                        ToRekey}
    /\ ToCode \notin {ToCreate, ToMail, ToValidate, ToVerify, ToReset,
                      ToRekeySpend, ToSpend, ToValidateNew, ToMoveSpend,
                      ToMove, ToMatch, ToAdopt, ToLink, ToChangePassword,
                      ToRekey}
    /\ ToMail \notin {ToCreate, ToCode, ToValidate, ToVerify, ToReset,
                      ToRekeySpend, ToSpend, ToValidateNew, ToMoveSpend,
                      ToMove, ToMatch, ToAdopt, ToLink, ToChangePassword,
                      ToRekey}
    /\ ToValidate \notin {ToCreate, ToCode, ToMail, ToVerify, ToReset,
                          ToRekeySpend, ToSpend, ToValidateNew, ToMoveSpend,
                          ToMove, ToMatch, ToAdopt, ToLink, ToChangePassword,
                          ToRekey}
    /\ ToVerify \notin {ToCreate, ToCode, ToMail, ToValidate, ToReset,
                        ToRekeySpend, ToSpend, ToValidateNew, ToMoveSpend,
                        ToMove, ToMatch, ToAdopt, ToLink, ToChangePassword,
                        ToRekey}
    /\ ToReset \notin {ToCreate, ToCode, ToMail, ToValidate, ToVerify,
                       ToRekeySpend, ToSpend, ToValidateNew, ToMoveSpend,
                       ToMove, ToMatch, ToAdopt, ToLink, ToChangePassword,
                       ToRekey}
    /\ ToRekeySpend \notin {ToCreate, ToCode, ToMail, ToValidate, ToVerify,
                            ToReset, ToSpend, ToValidateNew, ToMoveSpend,
                            ToMove, ToMatch, ToAdopt, ToLink, ToChangePassword,
                            ToRekey}
    /\ ToSpend \notin {ToCreate, ToCode, ToMail, ToValidate, ToVerify, ToReset,
                       ToRekeySpend, ToValidateNew, ToMoveSpend, ToMove,
                       ToMatch, ToAdopt, ToLink, ToChangePassword, ToRekey}
    /\ ToValidateNew \notin {ToCreate, ToCode, ToMail, ToValidate, ToVerify,
                             ToReset, ToRekeySpend, ToSpend, ToMoveSpend,
                             ToMove, ToMatch, ToAdopt, ToLink,
                             ToChangePassword, ToRekey}
    /\ ToMoveSpend \notin {ToCreate, ToCode, ToMail, ToValidate, ToVerify,
                           ToReset, ToRekeySpend, ToSpend, ToValidateNew,
                           ToMove, ToMatch, ToAdopt, ToLink, ToChangePassword,
                           ToRekey}
    /\ ToMove \notin {ToCreate, ToCode, ToMail, ToValidate, ToVerify, ToReset,
                      ToRekeySpend, ToSpend, ToValidateNew, ToMoveSpend,
                      ToMatch, ToAdopt, ToLink, ToChangePassword, ToRekey}
    /\ ToMatch \notin {ToCreate, ToCode, ToMail, ToValidate, ToVerify, ToReset,
                       ToRekeySpend, ToSpend, ToValidateNew, ToMoveSpend,
                       ToMove, ToAdopt, ToLink, ToChangePassword, ToRekey}
    /\ ToAdopt \notin {ToCreate, ToCode, ToMail, ToValidate, ToVerify, ToReset,
                       ToRekeySpend, ToSpend, ToValidateNew, ToMoveSpend,
                       ToMove, ToMatch, ToLink, ToChangePassword, ToRekey}
    /\ ToLink \notin {ToCreate, ToCode, ToMail, ToValidate, ToVerify, ToReset,
                      ToRekeySpend, ToSpend, ToValidateNew, ToMoveSpend,
                      ToMove, ToMatch, ToAdopt, ToChangePassword, ToRekey}
<1>1. ToCreate \notin {ToCode, ToMail, ToValidate, ToVerify, ToReset,
                       ToRekeySpend, ToSpend, ToValidateNew, ToMoveSpend,
                       ToMove, ToMatch, ToAdopt, ToLink, ToChangePassword,
                       ToRekey}
  <2>1. ToCreate \notin {ToCode, ToMail, ToValidate, ToVerify}
    BY Firsts
  <2>2. ToCreate \notin {ToReset, ToRekeySpend, ToSpend, ToValidateNew}
    BY Firsts
  <2>3. ToCreate \notin {ToMoveSpend, ToMove, ToMatch, ToAdopt}
    BY Firsts
  <2>4. ToCreate \notin {ToLink, ToChangePassword, ToRekey}
    BY Firsts
  <2> QED
    BY <2>1, <2>2, <2>3, <2>4
<1>2. ToCode \notin {ToCreate, ToMail, ToValidate, ToVerify, ToReset,
                     ToRekeySpend, ToSpend, ToValidateNew, ToMoveSpend, ToMove,
                     ToMatch, ToAdopt, ToLink, ToChangePassword, ToRekey}
  <2>1. ToCode \notin {ToCreate, ToMail, ToValidate, ToVerify}
    BY Firsts
  <2>2. ToCode \notin {ToReset, ToRekeySpend, ToSpend, ToValidateNew}
    BY Firsts
  <2>3. ToCode \notin {ToMoveSpend, ToMove, ToMatch, ToAdopt}
    BY Firsts
  <2>4. ToCode \notin {ToLink, ToChangePassword, ToRekey}
    BY Firsts
  <2> QED
    BY <2>1, <2>2, <2>3, <2>4
<1>3. ToMail \notin {ToCreate, ToCode, ToValidate, ToVerify, ToReset,
                     ToRekeySpend, ToSpend, ToValidateNew, ToMoveSpend, ToMove,
                     ToMatch, ToAdopt, ToLink, ToChangePassword, ToRekey}
  <2>1. ToMail \notin {ToCreate, ToCode, ToValidate, ToVerify}
    BY Firsts
  <2>2. ToMail \notin {ToReset, ToRekeySpend, ToSpend, ToValidateNew}
    BY Firsts
  <2>3. ToMail \notin {ToMoveSpend, ToMove, ToMatch, ToAdopt}
    BY Firsts
  <2>4. ToMail \notin {ToLink, ToChangePassword, ToRekey}
    BY Firsts
  <2> QED
    BY <2>1, <2>2, <2>3, <2>4
<1>4. ToValidate \notin {ToCreate, ToCode, ToMail, ToVerify, ToReset,
                         ToRekeySpend, ToSpend, ToValidateNew, ToMoveSpend,
                         ToMove, ToMatch, ToAdopt, ToLink, ToChangePassword,
                         ToRekey}
  <2>1. ToValidate \notin {ToCreate, ToCode, ToMail, ToVerify}
    BY Firsts
  <2>2. ToValidate \notin {ToReset, ToRekeySpend, ToSpend, ToValidateNew}
    BY Firsts
  <2>3. ToValidate \notin {ToMoveSpend, ToMove, ToMatch, ToAdopt}
    BY Firsts
  <2>4. ToValidate \notin {ToLink, ToChangePassword, ToRekey}
    BY Firsts
  <2> QED
    BY <2>1, <2>2, <2>3, <2>4
<1>5. ToVerify \notin {ToCreate, ToCode, ToMail, ToValidate, ToReset,
                       ToRekeySpend, ToSpend, ToValidateNew, ToMoveSpend,
                       ToMove, ToMatch, ToAdopt, ToLink, ToChangePassword,
                       ToRekey}
  <2>1. ToVerify \notin {ToCreate, ToCode, ToMail, ToValidate}
    BY Firsts
  <2>2. ToVerify \notin {ToReset, ToRekeySpend, ToSpend, ToValidateNew}
    BY Firsts
  <2>3. ToVerify \notin {ToMoveSpend, ToMove, ToMatch, ToAdopt}
    BY Firsts
  <2>4. ToVerify \notin {ToLink, ToChangePassword, ToRekey}
    BY Firsts
  <2> QED
    BY <2>1, <2>2, <2>3, <2>4
<1>6. ToReset \notin {ToCreate, ToCode, ToMail, ToValidate, ToVerify,
                      ToRekeySpend, ToSpend, ToValidateNew, ToMoveSpend,
                      ToMove, ToMatch, ToAdopt, ToLink, ToChangePassword,
                      ToRekey}
  <2>1. ToReset \notin {ToCreate, ToCode, ToMail, ToValidate}
    BY Firsts
  <2>2. ToReset \notin {ToVerify, ToRekeySpend, ToSpend, ToValidateNew}
    BY Firsts
  <2>3. ToReset \notin {ToMoveSpend, ToMove, ToMatch, ToAdopt}
    BY Firsts
  <2>4. ToReset \notin {ToLink, ToChangePassword, ToRekey}
    BY Firsts
  <2> QED
    BY <2>1, <2>2, <2>3, <2>4
<1>7. ToRekeySpend \notin {ToCreate, ToCode, ToMail, ToValidate, ToVerify,
                           ToReset, ToSpend, ToValidateNew, ToMoveSpend,
                           ToMove, ToMatch, ToAdopt, ToLink, ToChangePassword,
                           ToRekey}
  <2>1. ToRekeySpend \notin {ToCreate, ToCode, ToMail, ToValidate}
    BY Firsts
  <2>2. ToRekeySpend \notin {ToVerify, ToReset, ToSpend, ToValidateNew}
    BY Firsts
  <2>3. ToRekeySpend \notin {ToMoveSpend, ToMove, ToMatch, ToAdopt}
    BY Firsts
  <2>4. ToRekeySpend \notin {ToLink, ToChangePassword, ToRekey}
    BY Firsts
  <2> QED
    BY <2>1, <2>2, <2>3, <2>4
<1>8. ToSpend \notin {ToCreate, ToCode, ToMail, ToValidate, ToVerify, ToReset,
                      ToRekeySpend, ToValidateNew, ToMoveSpend, ToMove,
                      ToMatch, ToAdopt, ToLink, ToChangePassword, ToRekey}
  <2>1. ToSpend \notin {ToCreate, ToCode, ToMail, ToValidate}
    BY Firsts
  <2>2. ToSpend \notin {ToVerify, ToReset, ToRekeySpend, ToValidateNew}
    BY Firsts
  <2>3. ToSpend \notin {ToMoveSpend, ToMove, ToMatch, ToAdopt}
    BY Firsts
  <2>4. ToSpend \notin {ToLink, ToChangePassword, ToRekey}
    BY Firsts
  <2> QED
    BY <2>1, <2>2, <2>3, <2>4
<1>9. ToValidateNew \notin {ToCreate, ToCode, ToMail, ToValidate, ToVerify,
                            ToReset, ToRekeySpend, ToSpend, ToMoveSpend,
                            ToMove, ToMatch, ToAdopt, ToLink, ToChangePassword,
                            ToRekey}
  <2>1. ToValidateNew \notin {ToCreate, ToCode, ToMail, ToValidate}
    BY Firsts
  <2>2. ToValidateNew \notin {ToVerify, ToReset, ToRekeySpend, ToSpend}
    BY Firsts
  <2>3. ToValidateNew \notin {ToMoveSpend, ToMove, ToMatch, ToAdopt}
    BY Firsts
  <2>4. ToValidateNew \notin {ToLink, ToChangePassword, ToRekey}
    BY Firsts
  <2> QED
    BY <2>1, <2>2, <2>3, <2>4
<1>10. ToMoveSpend \notin {ToCreate, ToCode, ToMail, ToValidate, ToVerify,
                           ToReset, ToRekeySpend, ToSpend, ToValidateNew,
                           ToMove, ToMatch, ToAdopt, ToLink, ToChangePassword,
                           ToRekey}
  <2>1. ToMoveSpend \notin {ToCreate, ToCode, ToMail, ToValidate}
    BY Firsts
  <2>2. ToMoveSpend \notin {ToVerify, ToReset, ToRekeySpend, ToSpend}
    BY Firsts
  <2>3. ToMoveSpend \notin {ToValidateNew, ToMove, ToMatch, ToAdopt}
    <3>1. ToMoveSpend # ToValidateNew
      BY Firsts
    <3>2. ToMoveSpend # ToMove
      BY Firsts
    <3>3. ToMoveSpend # ToMatch
      BY Firsts
    <3>4. ToMoveSpend # ToAdopt
      BY Firsts
    <3> QED
      BY <3>1, <3>2, <3>3, <3>4
  <2>4. ToMoveSpend \notin {ToLink, ToChangePassword, ToRekey}
    BY Firsts
  <2> QED
    BY <2>1, <2>2, <2>3, <2>4
<1>11. ToMove \notin {ToCreate, ToCode, ToMail, ToValidate, ToVerify, ToReset,
                      ToRekeySpend, ToSpend, ToValidateNew, ToMoveSpend,
                      ToMatch, ToAdopt, ToLink, ToChangePassword, ToRekey}
  <2>1. ToMove \notin {ToCreate, ToCode, ToMail, ToValidate}
    BY Firsts
  <2>2. ToMove \notin {ToVerify, ToReset, ToRekeySpend, ToSpend}
    BY Firsts
  <2>3. ToMove \notin {ToValidateNew, ToMoveSpend, ToMatch, ToAdopt}
    <3>1. ToMove # ToValidateNew
      BY Firsts
    <3>2. ToMove # ToMoveSpend
      BY Firsts
    <3>3. ToMove # ToMatch
      BY Firsts
    <3>4. ToMove # ToAdopt
      BY Firsts
    <3> QED
      BY <3>1, <3>2, <3>3, <3>4
  <2>4. ToMove \notin {ToLink, ToChangePassword, ToRekey}
    BY Firsts
  <2> QED
    BY <2>1, <2>2, <2>3, <2>4
<1>12. ToMatch \notin {ToCreate, ToCode, ToMail, ToValidate, ToVerify, ToReset,
                       ToRekeySpend, ToSpend, ToValidateNew, ToMoveSpend,
                       ToMove, ToAdopt, ToLink, ToChangePassword, ToRekey}
  <2>1. ToMatch \notin {ToCreate, ToCode, ToMail, ToValidate}
    BY Firsts
  <2>2. ToMatch \notin {ToVerify, ToReset, ToRekeySpend, ToSpend}
    BY Firsts
  <2>3. ToMatch \notin {ToValidateNew, ToMoveSpend, ToMove, ToAdopt}
    BY Firsts
  <2>4. ToMatch \notin {ToLink, ToChangePassword, ToRekey}
    BY Firsts
  <2> QED
    BY <2>1, <2>2, <2>3, <2>4
<1>13. ToAdopt \notin {ToCreate, ToCode, ToMail, ToValidate, ToVerify, ToReset,
                       ToRekeySpend, ToSpend, ToValidateNew, ToMoveSpend,
                       ToMove, ToMatch, ToLink, ToChangePassword, ToRekey}
  <2>1. ToAdopt \notin {ToCreate, ToCode, ToMail, ToValidate}
    BY Firsts
  <2>2. ToAdopt \notin {ToVerify, ToReset, ToRekeySpend, ToSpend}
    BY Firsts
  <2>3. ToAdopt \notin {ToValidateNew, ToMoveSpend, ToMove, ToMatch}
    BY Firsts
  <2>4. ToAdopt \notin {ToLink, ToChangePassword, ToRekey}
    BY Firsts
  <2> QED
    BY <2>1, <2>2, <2>3, <2>4
<1>14. ToLink \notin {ToCreate, ToCode, ToMail, ToValidate, ToVerify, ToReset,
                      ToRekeySpend, ToSpend, ToValidateNew, ToMoveSpend,
                      ToMove, ToMatch, ToAdopt, ToChangePassword, ToRekey}
  <2>1. ToLink \notin {ToCreate, ToCode, ToMail, ToValidate}
    BY Firsts
  <2>2. ToLink \notin {ToVerify, ToReset, ToRekeySpend, ToSpend}
    BY Firsts
  <2>3. ToLink \notin {ToValidateNew, ToMoveSpend, ToMove, ToMatch}
    BY Firsts
  <2>4. ToLink \notin {ToAdopt, ToChangePassword, ToRekey}
    BY Firsts
  <2> QED
    BY <2>1, <2>2, <2>3, <2>4
<1> QED
  BY <1>1, <1>2, <1>3, <1>4, <1>5, <1>6, <1>7, <1>8, <1>9, <1>10, <1>11, <1>12,
     <1>13, <1>14

(* Which list of steps begins with which.                                  *)
LEMMA Heads ==
    ASSUME NEW t \in Todos, t # <<>>
    PROVE  /\ Head(t) = "create" <=> t \in {ToCreate}
           /\ Head(t) = "code" <=> t \in {ToCode}
           /\ Head(t) = "mail" <=> t \in {ToMail}
           /\ Head(t) = "validate" <=> t \in {ToValidate, ToReset}
           /\ Head(t) = "verify" <=> t \in {ToVerify}
           /\ Head(t) = "rekey" <=> t \in {ToRekeySpend, ToRekey}
           /\ Head(t) = "spend" <=> t \in {ToSpend}
           /\ Head(t) = "validateNew" <=> t \in {ToValidateNew}
           /\ Head(t) = "move" <=> t \in {ToMoveSpend, ToMove}
           /\ Head(t) = "compare" <=> t \in {ToChangePassword, ToLogin, ToLogin2}
           /\ Head(t) = "bury" <=> t \in {ToBury}
           /\ Head(t) = "support" <=> t \in {ToSupport}
           /\ Head(t) = "store" <=> t \in {ToStore}
           /\ Head(t) = "match" <=> t \in {ToMatch}
           /\ Head(t) = "adopt" <=> t \in {ToAdopt}
           /\ Head(t) = "link" <=> t \in {ToLink}
           /\ Head(t) = "login" <=> t \in {ToFactor}
           /\ Head(t) = "drop" <=> t \in {ToDrop}
           /\ Head(t) = "generate" <=> t \in {ToGenerate}
           /\ Head(t) = "enable" <=> t \in {ToEnable}
           /\ Head(t) = "disable" <=> t \in {ToDisable}
<1>1. Head(t) = "create" <=> t \in {ToCreate}
  BY Firsts DEF Todos
<1>2. Head(t) = "code" <=> t \in {ToCode}
  BY Firsts DEF Todos
<1>3. Head(t) = "mail" <=> t \in {ToMail}
  BY Firsts DEF Todos
<1>4. Head(t) = "validate" <=> t \in {ToValidate, ToReset}
  BY Firsts DEF Todos
<1>5. Head(t) = "verify" <=> t \in {ToVerify}
  BY Firsts DEF Todos
<1>6. Head(t) = "rekey" <=> t \in {ToRekeySpend, ToRekey}
  BY Firsts DEF Todos
<1>7. Head(t) = "spend" <=> t \in {ToSpend}
  BY Firsts DEF Todos
<1>8. Head(t) = "validateNew" <=> t \in {ToValidateNew}
  BY Firsts DEF Todos
<1>9. Head(t) = "move" <=> t \in {ToMoveSpend, ToMove}
  BY Firsts DEF Todos
<1>10. Head(t) = "compare" <=> t \in {ToChangePassword, ToLogin, ToLogin2}
  BY Firsts DEF Todos
<1>11. Head(t) = "bury" <=> t \in {ToBury}
  BY Firsts DEF Todos
<1>12. Head(t) = "support" <=> t \in {ToSupport}
  BY Firsts DEF Todos
<1>13. Head(t) = "store" <=> t \in {ToStore}
  BY Firsts DEF Todos
<1>14. Head(t) = "match" <=> t \in {ToMatch}
  BY Firsts DEF Todos
<1>15. Head(t) = "adopt" <=> t \in {ToAdopt}
  BY Firsts DEF Todos
<1>16. Head(t) = "link" <=> t \in {ToLink}
  BY Firsts DEF Todos
<1>17. Head(t) = "login" <=> t \in {ToFactor}
  BY Firsts DEF Todos
<1>18. Head(t) = "drop" <=> t \in {ToDrop}
  BY Firsts DEF Todos
<1>19. Head(t) = "generate" <=> t \in {ToGenerate}
  BY Firsts DEF Todos
<1>20. Head(t) = "enable" <=> t \in {ToEnable}
  BY Firsts DEF Todos
<1>21. Head(t) = "disable" <=> t \in {ToDisable}
  BY Firsts DEF Todos
<1> QED
  BY <1>1, <1>2, <1>3, <1>4, <1>5, <1>6, <1>7, <1>8, <1>9, <1>10,
     <1>11, <1>12, <1>13, <1>14, <1>15, <1>16, <1>17, <1>18,
     <1>19, <1>20, <1>21

LEMMA OneStepLeft ==
    ASSUME NEW t \in Todos, t # <<>>
    PROVE  (Len(t) = 1) <=> Tail(t) = <<>>
<1>1. t \in Seq(Steps)
  BY TodosAreSteps
<1>2. Tail(t) \in Seq(Steps) /\ Len(Tail(t)) = Len(t) - 1 /\ Len(t) \in Nat
  BY <1>1, HeadTailProperties, LenProperties
<1>3. Tail(t) = <<>> <=> Len(Tail(t)) = 0
  BY <1>2, EmptySeq
<1> QED
  BY <1>2, <1>3

LEMMA CallFields ==
    ASSUME NEW c \in Call, NEW t \in Seq(Steps)
    PROVE  /\ [c EXCEPT !.todo = t] \in Call
           /\ [c EXCEPT !.todo = t].todo = t /\ [c EXCEPT !.todo = t].user = c.user
           /\ [c EXCEPT !.todo = t].email = c.email /\ [c EXCEPT !.todo = t].code = c.code
           /\ [c EXCEPT !.todo = t].under = c.under
           /\ [c EXCEPT !.todo = t].subject = c.subject
BY DEF Call

LEMMA BlankIsCall ==
    Blank \in Call /\ Blank.todo = <<>> /\ Blank.code = 0 /\ Blank.under = None
<1>1. <<>> \in Seq(Steps)
  OBVIOUS
<1> QED
  BY <1>1 DEF Blank, Call, Email

(* The rest need to know nothing.                                          *)
LEMMA PlainKnows ==
    ASSUME NEW us, NEW uc, NEW reached, NEW claimed, NEW received, NEW c,
           NEW t \in {<<>>, ToBury, ToSupport, ToStore, ToLogin, ToLogin2, ToFactor, ToDrop,
                      ToGenerate, ToEnable, ToDisable}
    PROVE  Knows(us, uc, reached, claimed, received, t, c)
<1>1. t \in Todos
  BY DEF Todos
<1>2. t \notin {ToCreate, ToCode, ToMail, ToValidate, ToReset, ToValidateNew,
                ToVerify, ToSpend, ToMoveSpend, ToMove, ToMatch, ToAdopt, ToLink,
                ToChangePassword, ToRekey}
  <2>1. t \notin {ToCreate, ToCode, ToMail, ToVerify, ToSpend}
    BY Firsts
  <2>2. t \notin {ToValidate, ToReset, ToValidateNew}
    BY Firsts
  <2>3. t \notin {ToMoveSpend, ToMove, ToMatch}
    BY Firsts
  <2>4. t \notin {ToAdopt, ToLink}
    BY Firsts
  <2>5. t # ToChangePassword
    <3>1. ToLogin # ToChangePassword
      BY Tails
    <3>2. ToLogin2 # ToChangePassword
      <4>1. Len(ToLogin2) = 3 /\ Len(ToChangePassword) = 2
        BY DEF ToLogin2, ToChangePassword
      <4> QED
        BY <4>1
    <3> QED
      BY <3>1, <3>2, Firsts
  <2>6. t # ToRekey
    BY Firsts
  <2> QED
    BY <2>1, <2>2, <2>3, <2>4, <2>5, <2>6
<1>3. t # ToRekeySpend
  BY Firsts
<1> QED
  BY <1>1, <1>2, <1>3 DEF Knows

LEMMA PasswordKnows ==
    ASSUME NEW us, NEW uc, NEW reached, NEW claimed, NEW received, NEW c, c.code = 0,
           NEW t \in {ToRekey, ToChangePassword}
    PROVE  Knows(us, uc, reached, claimed, received, t, c)
BY Distinct DEF Knows, Todos

LEMMA BlankKnows ==
    ASSUME NEW us, NEW uc, NEW reached, NEW claimed, NEW received
    PROVE  Knows(us, uc, reached, claimed, received, Blank.todo, Blank)
BY BlankIsCall, PlainKnows

(* What is known stays true while rows and codes stay and accounts move    *)
(* only to addresses answered for.                                         *)
Grows ==
    /\ DOMAIN users \subseteq DOMAIN users'
    /\ \A u \in DOMAIN users :
          users'[u].email \in {users[u].email} \cup Reached' \cup Nowhere
    /\ DOMAIN ucodes \subseteq DOMAIN ucodes'
    /\ \A c \in DOMAIN ucodes : ucodes'[c].email = ucodes[c].email
    /\ Reached \subseteq Reached' /\ Received \subseteq Received'
    /\ Claimed \subseteq Claimed' /\ Reached' \subseteq Claimed'

LEMMA KnowsStays ==
    ASSUME Grows, NEW t, NEW c, Knows(users, ucodes, Reached, Claimed, Received, t, c)
    PROVE  Knows(users', ucodes', Reached', Claimed', Received', t, c)
BY DEF Grows, Knows

LEMMA CallsStay ==
    ASSUME CallsKnow, Grows, call' = call
    PROVE  CallsKnow'
BY KnowsStays DEF CallsKnow

LEMMA OneCallMoves ==
    ASSUME IInv, NEW h \in Handlers, NEW k \in Call, call' = [call EXCEPT ![h] = k],
           Knows(users', ucodes', Reached', Claimed', Received', k.todo, k), Grows
    PROVE  CallsKnow' /\ call' \in [Handlers -> Call]
<1>1. \A g \in Handlers : call'[g] = IF g = h THEN k ELSE call[g]
  BY DEF IInv, TypeOK
<1>2. \A g \in Handlers :
         Knows(users', ucodes', Reached', Claimed', Received', call'[g].todo, call'[g])
  BY <1>1, KnowsStays DEF IInv, CallsKnow
<1>3. call' \in [Handlers -> Call]
  BY <1>1 DEF IInv, TypeOK
<1> QED
  BY <1>2, <1>3 DEF CallsKnow

LEMMA EndKeeps ==
    ASSUME IInv, NEW h \in Handlers, End(h), Grows
    PROVE  CallsKnow' /\ call' \in [Handlers -> Call]
BY BlankIsCall, BlankKnows, OneCallMoves DEF End

LEMMA ProceedKeeps ==
    ASSUME IInv, NEW h \in Handlers, call[h].todo # <<>>, NEW known \in Call,
           Proceed(h, known), Grows,
           Tail(call[h].todo) # <<>> =>
                Knows(users', ucodes', Reached', Claimed', Received', Tail(call[h].todo), known)
    PROVE  CallsKnow' /\ call' \in [Handlers -> Call]
<1> DEFINE t == call[h].todo
           k == [known EXCEPT !.todo = Tail(t)]
<1>1. t \in Todos
  BY DEF IInv, CallsKnow, Knows
<1>2. CASE Tail(t) = <<>>
  <2>1. call' = [call EXCEPT ![h] = Blank]
    BY <1>1, <1>2, OneStepLeft DEF Proceed
  <2> QED
    BY <2>1, BlankIsCall, BlankKnows, OneCallMoves
<1>3. CASE Tail(t) # <<>>
  <2>1. call' = [call EXCEPT ![h] = k]
    BY <1>1, <1>3, OneStepLeft DEF Proceed
  <2>2. Knows(users', ucodes', Reached', Claimed', Received', Tail(t), known)
    BY <1>3
  <2>3. Tail(t) \in Seq(Steps)
    BY <2>2, TodosAreSteps DEF Knows
  <2> HIDE DEF t
  <2>4. /\ k \in Call /\ k.todo = Tail(t) /\ k.user = known.user /\ k.email = known.email
        /\ k.code = known.code /\ k.under = known.under /\ k.subject = known.subject
    BY <2>3, CallFields
  <2> HIDE DEF k
  <2>5. Knows(users', ucodes', Reached', Claimed', Received', k.todo, k)
    BY <2>2, <2>4 DEF Knows
  <2> QED
    BY <2>1, <2>4, <2>5, OneCallMoves
<1> QED
  BY <1>2, <1>3

LEMMA RowsAreRows ==
    ASSUME TypeOK
    PROVE  /\ users \in Seq(User) /\ DOMAIN users = 1..Len(users) /\ Len(users) \in Nat
           /\ \A u \in DOMAIN users : users[u] \in User
           /\ ucodes \in Seq(Ucode) /\ DOMAIN ucodes = 1..Len(ucodes) /\ Len(ucodes) \in Nat
           /\ \A c \in DOMAIN ucodes : ucodes[c] \in Ucode
<1>1. users \in Seq(User) /\ ucodes \in Seq(Ucode)
  BY DEF TypeOK
<1>2. DOMAIN users = 1..Len(users) /\ Len(users) \in Nat
      /\ DOMAIN ucodes = 1..Len(ucodes) /\ Len(ucodes) \in Nat
  BY <1>1, LenProperties
<1> QED
  BY <1>1, <1>2, ElementOfSeq

---------------------------------------------------------------------------
(* Steps that leave the rows alone *)

LEMMA InitInv == Init => IInv
<1> SUFFICES ASSUME Init
             PROVE  IInv
  OBVIOUS
<1> USE DEF Init
<1>1. /\ Settled \in Seq(Addresses) /\ Len(Settled) \in Nat /\ Len(Settled) <= MaxAccounts
      /\ DOMAIN Settled = 1..Len(Settled)
      /\ \A u \in 1..Len(Settled) : Settled[u] \in Addresses
      /\ \A u, v \in 1..Len(Settled) : Settled[u] = Settled[v] => u = v
  BY SettledAreAddresses, LenProperties, ElementOfSeq, BoundsAreNumbers
<1>2. \A u \in 1..Len(Settled) : NewUser(Settled[u]) \in User
  BY <1>1 DEF NewUser, User, Email
<1>3. users \in Seq(User) /\ Len(users) = Len(Settled) /\ DOMAIN users = 1..Len(Settled)
      /\ \A u \in 1..Len(Settled) : users[u].email = Settled[u]
  BY <1>1, <1>2 DEF NewUser
<1>4. ucodes \in Seq(Ucode) /\ DOMAIN ucodes = {}
  OBVIOUS
<1>5. call \in [Handlers -> Call] /\ CallsKnow
  BY BlankIsCall, BlankKnows DEF CallsKnow
<1>6. calls \in 0..MaxCalls /\ failures \in 0..MaxFailures
  BY BoundsAreNumbers
<1>7. TypeOK
  BY <1>3, <1>4, <1>5, <1>6 DEF TypeOK
<1>8. Unique
  BY <1>1, <1>3 DEF Unique, Present, Ids
<1>9. CodesHaveAddresses /\ JobsOpenProved /\ MailsOpenProved
  BY <1>4 DEF CodesHaveAddresses, JobsOpenProved, MailsOpenProved
<1> QED
  BY <1>1, <1>3, <1>5, <1>7, <1>8, <1>9 DEF IInv

LEMMA GrowsWithVouched ==
    ASSUME UNCHANGED <<users, ucodes, inbox>>, vouched \subseteq vouched', typed \subseteq typed'
    PROVE  Grows
BY DEF Grows, Reached, Claimed, Received

LEMMA CallStepKeeps ==
    ASSUME IInv, call' \in [Handlers -> Call], CallsKnow',
           UNCHANGED <<users, ucodes, session, mailQueue, inbox>>, Spendings',
           vouched \subseteq vouched', vouched' \subseteq Addresses,
           typed' \subseteq Addresses,
           calls' \in 0..MaxCalls, failures' \in 0..MaxFailures
    PROVE  IInv'
<1>1. TypeOK'
  BY DEF IInv, TypeOK, Ids, Spendings
<1>2. Unique'
  BY DEF IInv, Unique, Present, Ids
<1>3. Reached \subseteq Reached'
  BY DEF Reached
<1>4. CodesHaveAddresses' /\ JobsOpenProved' /\ MailsOpenProved'
  BY <1>3 DEF IInv, CodesHaveAddresses, JobsOpenProved, MailsOpenProved
<1> QED
  BY <1>1, <1>2, <1>4 DEF IInv

(* A request that knows what its first step needs.                         *)
LEMMA AcceptKeeps ==
    ASSUME IInv, NEW h \in Handlers, NEW kind, NEW request \in Call,
           Accept(h, kind, request),
           vouched \subseteq vouched', vouched' \subseteq Addresses,
           typed \subseteq typed', typed' \subseteq Addresses,
           Knows(users, ucodes, Reached', Claimed', Received, request.todo, request)
    PROVE  IInv'
<1>1. /\ call' = [call EXCEPT ![h] = request]
      /\ UNCHANGED <<users, ucodes, session, mailQueue, inbox, used, cut, failures>>
      /\ calls' \in 0..MaxCalls
  BY BoundsAreNumbers DEF Accept, tables, post, spending, IInv, TypeOK
<1>2. Grows
  BY <1>1, GrowsWithVouched
<1>3. Received' = Received
  BY <1>1 DEF Received
<1>4. CallsKnow' /\ call' \in [Handlers -> Call]
  BY <1>1, <1>2, <1>3, OneCallMoves
<1>5. Spendings'
  BY <1>1 DEF Spendings, IInv, TypeOK
<1> QED
  BY <1>1, <1>4, <1>5, CallStepKeeps DEF IInv, TypeOK

LEMMA HistoryStays ==
    ASSUME IInv, UNCHANGED history
    PROVE  UNCHANGED <<vouched, typed, used, cut, credit>> /\ Spendings'
BY DEF history, credit, spending, Spendings, IInv, TypeOK

LEMMA ReadStepKeeps ==
    ASSUME IInv, call' \in [Handlers -> Call], CallsKnow', Spendings',
           UNCHANGED <<tables, post, credit, calls, failures>>
    PROVE  IInv'
BY CallStepKeeps DEF tables, post, credit, IInv, TypeOK

LEMMA CallAt ==
    ASSUME IInv, NEW h \in Handlers, call[h].todo # <<>>
    PROVE  /\ Knows(users, ucodes, Reached, Claimed, Received, call[h].todo, call[h])
           /\ call[h] \in Call /\ call[h].todo \in Todos
BY DEF IInv, TypeOK, CallsKnow, Knows

LEMMA FailKeeps ==
    ASSUME IInv, NEW h \in Handlers, Fail(h)
    PROVE  IInv'
<1>1. /\ UNCHANGED <<users, ucodes, session, mailQueue, inbox, used, vouched, typed, calls>>
      /\ End(h) /\ failures' \in 0..MaxFailures
  BY BoundsAreNumbers DEF Fail, tables, post, credit, IInv, TypeOK
<1>2. CallsKnow' /\ call' \in [Handlers -> Call]
  BY <1>1, EndKeeps, GrowsWithVouched
<1>3. Spendings'
  <2>1. CASE At(h, "spend")
    <3>1. call[h].todo = ToSpend
      BY <2>1, CallAt, Heads DEF At
    <3>2. call[h].email \in Addresses /\ call[h].code \in Nat
      BY <2>1, <3>1, CallAt DEF At, Knows, Call
    <3> QED
      BY <1>1, <2>1, <3>2 DEF Fail, Spendings, IInv, TypeOK
  <2>2. CASE ~At(h, "spend")
    BY <1>1, <2>2 DEF Fail, Spendings, IInv, TypeOK
  <2> QED
    BY <2>1, <2>2
<1> QED
  BY <1>1, <1>2, <1>3, CallStepKeeps DEF IInv, TypeOK

(* The code is of the address, and was received: the address has answered. *)
LEMMA ValidateTokenKeeps ==
    ASSUME IInv, NEW h \in Handlers, ValidateToken(h)
    PROVE  IInv'
<1> DEFINE t == call[h].todo
<1>1. /\ Knows(users, ucodes, Reached, Claimed, Received, t, call[h]) /\ call[h] \in Call
      /\ t # <<>> /\ t \in {ToValidate, ToReset, ToValidateNew}
  <2>1. t # <<>> /\ (Head(t) = "validate" \/ Head(t) = "validateNew")
    BY DEF ValidateToken, At
  <2> QED
    BY <2>1, CallAt, Heads
<1>2. UNCHANGED <<users, ucodes, inbox, vouched, typed>>
  BY HistoryStays DEF ValidateToken, tables, post
<1>3. Grows
  BY <1>2, GrowsWithVouched
<1>4. CASE End(h)
  <2>1. CallsKnow' /\ call' \in [Handlers -> Call]
    BY <1>3, <1>4, EndKeeps
  <2> QED
    BY <2>1, ReadStepKeeps, HistoryStays DEF ValidateToken
<1>5. CASE Proceed(h, call[h]) /\ Validates(call[h].code, call[h].email)
  <2>1. call[h].email \in Addresses /\ call[h].code \in Received
    BY <1>1 DEF Knows
  <2>2. PICK m \in inbox : m[2] = call[h].code
    BY <2>1 DEF Received
  <2>3. call[h].code \in DOMAIN ucodes /\ ucodes[call[h].code].email \in Reached \cup Nowhere
    BY <2>2 DEF IInv, MailsOpenProved
  <2>4. call[h].email \in Reached
    BY <1>5, <2>1, <2>3, SentinelsAreNoAddresses DEF Validates, Nowhere
  <2>5. Tail(t) \in {ToVerify, ToRekeySpend, ToMoveSpend} /\ (t = ToValidate <=> Tail(t) = ToVerify)
    <3>1. /\ Tail(ToValidate) = ToVerify /\ Tail(ToReset) = ToRekeySpend
          /\ Tail(ToValidateNew) = ToMoveSpend
      BY Tails
    <3> QED
      BY <1>1, <3>1, Distinct
  <2>6. Tail(t) = ToVerify =>
            /\ call[h].user \in DOMAIN users
            /\ users[call[h].user].email \in Reached \cup Nowhere
    BY <1>1, <2>4, <2>5 DEF Knows
  <2>7. Knows(users, ucodes, Reached, Claimed, Received, Tail(t), call[h])
    <3>2. Tail(t) \in Todos
      BY <2>5 DEF Todos
    <3>3. Tail(t) \notin {ToCreate, ToCode, ToMail, ToValidate, ToReset, ToValidateNew,
                          ToMatch, ToAdopt, ToLink, ToMove, ToChangePassword, ToRekey}
      BY <2>5, Distinct
    <3> HIDE DEF t
    <3> QED
      BY <2>1, <2>3, <2>4, <2>6, <3>2, <3>3 DEF Knows
  <2>8. Knows(users', ucodes', Reached', Claimed', Received', Tail(t), call[h])
    BY <1>3, <2>7, KnowsStays
  <2>9. CallsKnow' /\ call' \in [Handlers -> Call]
    BY <1>1, <1>3, <1>5, <2>8, ProceedKeeps
  <2> QED
    BY <2>9, ReadStepKeeps, HistoryStays DEF ValidateToken
<1> QED
  BY <1>4, <1>5 DEF ValidateToken, VerifyOtp

LEMMA CompareKeeps ==
    ASSUME IInv, NEW h \in Handlers, Compare(h) \/ VerifyTwoFactor(h)
    PROVE  IInv'
<1> DEFINE t == call[h].todo
<1>1. /\ Knows(users, ucodes, Reached, Claimed, Received, t, call[h]) /\ call[h] \in Call
      /\ t # <<>> /\ t \in {ToChangePassword, ToLogin, ToLogin2, ToFactor}
  <2>1. t # <<>> /\ (Head(t) = "compare" \/ Head(t) = "login")
    BY DEF Compare, VerifyTwoFactor, At
  <2> QED
    BY <2>1, CallAt, Heads
<1>2. UNCHANGED <<tables, post, history, calls, failures>>
  BY DEF Compare, VerifyTwoFactor
<1>3. Grows
  BY <1>2, GrowsWithVouched, HistoryStays DEF tables, post
<1>4. Tail(t) \in {ToRekey, ToStore, ToFactor} /\ (Tail(t) = ToRekey => t = ToChangePassword)
  BY <1>1, Tails, Firsts
<1>5. Knows(users', ucodes', Reached', Claimed', Received', Tail(t), call[h])
  <2>1. CASE Tail(t) = ToRekey
    <3>1. call[h].code = 0
      BY <1>1, <1>4, <2>1 DEF Knows
    <3> QED
      BY <2>1, <3>1, PasswordKnows
  <2>2. CASE Tail(t) # ToRekey
    BY <1>4, <2>2, PlainKnows
  <2> QED
    BY <2>1, <2>2
<1>6. End(h) \/ Proceed(h, call[h])
  BY DEF Compare, VerifyTwoFactor
<1>7. CallsKnow' /\ call' \in [Handlers -> Call]
  BY <1>1, <1>3, <1>5, <1>6, EndKeeps, ProceedKeeps
<1> QED
  BY <1>2, <1>7, ReadStepKeeps, HistoryStays

---------------------------------------------------------------------------
(* The requests *)

LEMMA RowsThere ==
    ASSUME IInv
    PROVE  /\ \A w \in Present : w \in Nat /\ w \in DOMAIN users /\ users[w].email \in Email
           /\ \A m \in Received : m \in Nat
           /\ \A b \in Addresses : \A w \in HolderOf(b) : w \in Present /\ users[w].email = b
BY RowsAreRows DEF IInv, TypeOK, Present, Ids, HolderOf, Received, User

LEMMA RegisterKeeps ==
    ASSUME IInv, NEW h \in Handlers, NEW a \in Addresses,
           Register(h, a)
    PROVE  IInv'
<1> DEFINE t == <<"create", "code", "mail">>
           request == [Blank EXCEPT !.todo = t, !.email = a]
<1>1. t = ToCreate /\ t \in Seq(Steps)
  BY TodosAreSteps DEF ToCreate, Todos
<1>2. Accept(h, "REGISTER", request)
  BY DEF Register, t
<1>3. /\ vouched' = vouched /\ vouched \subseteq Addresses
      /\ typed' = typed /\ typed \subseteq Addresses
  BY DEF Register, credit, IInv, TypeOK
<1> HIDE DEF t
<1>4. /\ request \in Call /\ request.todo = t /\ request.email = a /\ request.code = 0 /\ request.under = None
  BY <1>1, RowsThere, BlankIsCall DEF Call, Email
<1> HIDE DEF request
<1>5. Knows(users, ucodes, Reached', Claimed', Received, request.todo, request)
  BY <1>1, <1>3, <1>4, RowsThere, SentinelsAreNoAddresses, Distinct DEF Knows, Todos
<1> QED
  BY <1>2, <1>3, <1>4, <1>5, AcceptKeeps

LEMMA VerifyEmailKeeps ==
    ASSUME IInv, NEW h \in Handlers, NEW a \in Addresses, NEW c \in Received,
           VerifyEmail(h, a, c)
    PROVE  IInv'
<1>1. PICK u \in HolderOf(a) :
         /\ Accept(h, "VERIFY", [Blank EXCEPT !.todo = <<"validate", "verify">>,
                !.user = u, !.email = a, !.code = c])
         /\ UNCHANGED credit
  BY DEF VerifyEmail
<1> DEFINE t == <<"validate", "verify">>
           request == [Blank EXCEPT !.todo = t, !.user = u, !.email = a, !.code = c]
<1>2. t = ToValidate /\ t \in Seq(Steps)
  BY TodosAreSteps DEF ToValidate, Todos
<1>3. Accept(h, "VERIFY", request)
  BY <1>1 DEF t
<1>4. /\ vouched' = vouched /\ vouched \subseteq Addresses
      /\ typed' = typed /\ typed \subseteq Addresses
  BY <1>1 DEF credit, IInv, TypeOK
<1> HIDE DEF t
<1>5. /\ request \in Call /\ request.todo = t /\ request.user = u /\ request.email = a /\ request.code = c
  BY <1>2, RowsThere, BlankIsCall DEF Call, Email
<1> HIDE DEF request
<1>6. Knows(users, ucodes, Reached', Claimed', Received, request.todo, request)
  BY <1>2, <1>4, <1>5, RowsThere, Distinct, <1>1 DEF Knows, Todos
<1> QED
  BY <1>3, <1>4, <1>5, <1>6, AcceptKeeps

LEMMA AskForCodeKeeps ==
    ASSUME IInv, NEW h \in Handlers, NEW a \in Addresses,
           AskForCode(h, a)
    PROVE  IInv'
<1>1. PICK u \in HolderOf(a) :
         /\ Accept(h, "ASK", [Blank EXCEPT !.todo = <<"code", "mail">>,
                !.user = u, !.email = a])
         /\ UNCHANGED credit
  BY DEF AskForCode
<1> DEFINE t == <<"code", "mail">>
           request == [Blank EXCEPT !.todo = t, !.user = u, !.email = a]
<1>2. t = ToCode /\ t \in Seq(Steps)
  BY TodosAreSteps DEF ToCode, Todos
<1>3. Accept(h, "ASK", request)
  BY <1>1 DEF t
<1>4. /\ vouched' = vouched /\ vouched \subseteq Addresses
      /\ typed' = typed /\ typed \subseteq Addresses
  BY <1>1 DEF credit, IInv, TypeOK
<1> HIDE DEF t
<1>5. /\ request \in Call /\ request.todo = t /\ request.user = u /\ request.email = a /\ request.code = 0 /\ request.under = None
  BY <1>2, RowsThere, BlankIsCall DEF Call, Email
<1> HIDE DEF request
<1>6. Knows(users, ucodes, Reached', Claimed', Received, request.todo, request)
  BY <1>2, <1>4, <1>5, RowsThere, Distinct, <1>1 DEF Knows, Todos
<1> QED
  BY <1>3, <1>4, <1>5, <1>6, AcceptKeeps

LEMMA ResetPasswordKeeps ==
    ASSUME IInv, NEW h \in Handlers, NEW a \in Addresses, NEW c \in Received,
           ResetPassword(h, a, c)
    PROVE  IInv'
<1> DEFINE t == <<"validate", "rekey", "spend">>
           request == [Blank EXCEPT !.todo = t, !.email = a, !.code = c]
<1>1. t = ToReset /\ t \in Seq(Steps)
  BY TodosAreSteps DEF ToReset, Todos
<1>2. Accept(h, "RESET", request)
  BY DEF ResetPassword, t
<1>3. /\ vouched' = vouched /\ vouched \subseteq Addresses
      /\ typed' = typed /\ typed \subseteq Addresses
  BY DEF ResetPassword, credit, IInv, TypeOK
<1> HIDE DEF t
<1>4. /\ request \in Call /\ request.todo = t /\ request.email = a /\ request.code = c
  BY <1>1, RowsThere, BlankIsCall DEF Call, Email
<1> HIDE DEF request
<1>5. Knows(users, ucodes, Reached', Claimed', Received, request.todo, request)
  BY <1>1, <1>3, <1>4, RowsThere, SentinelsAreNoAddresses, Distinct DEF Knows, Todos
<1> QED
  BY <1>2, <1>3, <1>4, <1>5, AcceptKeeps

LEMMA RequestEmailChangeKeeps ==
    ASSUME IInv, NEW h \in Handlers, NEW u \in Present, NEW a \in Addresses,
           RequestEmailChange(h, u, a)
    PROVE  IInv'
<1> DEFINE t == <<"code", "mail">>
           request == [Blank EXCEPT !.todo = t, !.user = u, !.email = a, !.under = a]
<1>1. t = ToCode /\ t \in Seq(Steps)
  BY TodosAreSteps DEF ToCode, Todos
<1>2. Accept(h, "REQUEST_CHANGE", request)
  BY DEF RequestEmailChange, t
<1>3. /\ vouched' = vouched /\ vouched \subseteq Addresses
      /\ typed' = typed /\ typed \subseteq Addresses
  BY DEF RequestEmailChange, credit, IInv, TypeOK
<1> HIDE DEF t
<1>4. /\ request \in Call /\ request.todo = t /\ request.user = u /\ request.email = a /\ request.under = a /\ request.code = 0
  BY <1>1, RowsThere, BlankIsCall DEF Call, Email
<1> HIDE DEF request
<1>5. Knows(users, ucodes, Reached', Claimed', Received, request.todo, request)
  BY <1>1, <1>3, <1>4, RowsThere, SentinelsAreNoAddresses, Distinct DEF Knows, Todos
<1> QED
  BY <1>2, <1>3, <1>4, <1>5, AcceptKeeps

LEMMA ChangeEmailKeeps ==
    ASSUME IInv, NEW h \in Handlers, NEW u \in Present, NEW a \in Addresses, NEW c \in Received,
           ChangeEmail(h, u, a, c)
    PROVE  IInv'
<1> DEFINE t == <<"validateNew", "move", "spend">>
           request == [Blank EXCEPT !.todo = t, !.user = u, !.email = a, !.code = c]
<1>1. t = ToValidateNew /\ t \in Seq(Steps)
  BY TodosAreSteps DEF ToValidateNew, Todos
<1>2. Accept(h, "CHANGE", request)
  BY DEF ChangeEmail, t
<1>3. /\ vouched' = vouched /\ vouched \subseteq Addresses
      /\ typed' = typed /\ typed \subseteq Addresses
  BY DEF ChangeEmail, credit, IInv, TypeOK
<1> HIDE DEF t
<1>4. /\ request \in Call /\ request.todo = t /\ request.user = u /\ request.email = a /\ request.code = c
  BY <1>1, RowsThere, BlankIsCall DEF Call, Email
<1> HIDE DEF request
<1>5. Knows(users, ucodes, Reached', Claimed', Received, request.todo, request)
  BY <1>1, <1>3, <1>4, RowsThere, SentinelsAreNoAddresses, Distinct DEF Knows, Todos
<1> QED
  BY <1>2, <1>3, <1>4, <1>5, AcceptKeeps

LEMMA ChangePasswordKeeps ==
    ASSUME IInv, NEW h \in Handlers, NEW u \in Present,
           ChangePassword(h, u)
    PROVE  IInv'
<1> DEFINE t == <<"compare", "rekey">>
           request == [Blank EXCEPT !.todo = t, !.email = users[u].email]
<1>1. t = ToChangePassword /\ t \in Seq(Steps)
  BY TodosAreSteps DEF ToChangePassword, Todos
<1>2. Accept(h, "PASSWORD", request)
  BY DEF ChangePassword, t
<1>3. /\ vouched' = vouched /\ vouched \subseteq Addresses
      /\ typed' = typed /\ typed \subseteq Addresses
  BY DEF ChangePassword, credit, IInv, TypeOK
<1> HIDE DEF t
<1>4. /\ request \in Call /\ request.todo = t /\ request.email = users[u].email
      /\ request.code = 0
  BY <1>1, RowsThere, BlankIsCall DEF Call, Email
<1> HIDE DEF request
<1>5. Knows(users, ucodes, Reached', Claimed', Received, request.todo, request)
  BY <1>1, <1>4, PasswordKnows
<1> QED
  BY <1>2, <1>3, <1>4, <1>5, AcceptKeeps

LEMMA DeleteAccountKeeps ==
    ASSUME IInv, NEW h \in Handlers, NEW u \in Present,
           DeleteAccount(h, u)
    PROVE  IInv'
<1> DEFINE t == <<"bury">>
           request == [Blank EXCEPT !.todo = t, !.user = u, !.email = users[u].email]
<1>1. t = ToBury /\ t \in Seq(Steps)
  BY TodosAreSteps DEF ToBury, Todos
<1>2. Accept(h, "DELETE", request)
  BY DEF DeleteAccount, t
<1>3. /\ vouched' = vouched /\ vouched \subseteq Addresses
      /\ typed' = typed /\ typed \subseteq Addresses
  BY DEF DeleteAccount, credit, IInv, TypeOK
<1> HIDE DEF t
<1>4. /\ request \in Call /\ request.todo = t /\ request.user = u /\ request.email = users[u].email
  BY <1>1, RowsThere, BlankIsCall DEF Call, Email
<1> HIDE DEF request
<1>5. Knows(users, ucodes, Reached', Claimed', Received, request.todo, request)
  BY <1>1, <1>4, PlainKnows
<1> QED
  BY <1>2, <1>3, <1>4, <1>5, AcceptKeeps

LEMMA HelpSupportKeeps ==
    ASSUME IInv, NEW h \in Handlers, NEW u \in Present,
           HelpSupport(h, u)
    PROVE  IInv'
<1> DEFINE t == <<"support">>
           request == [Blank EXCEPT !.todo = t, !.user = u]
<1>1. t = ToSupport /\ t \in Seq(Steps)
  BY TodosAreSteps DEF ToSupport, Todos
<1>2. Accept(h, "HELP", request)
  BY DEF HelpSupport, t
<1>3. /\ vouched' = vouched /\ vouched \subseteq Addresses
      /\ typed' = typed /\ typed \subseteq Addresses
  BY DEF HelpSupport, credit, IInv, TypeOK
<1> HIDE DEF t
<1>4. /\ request \in Call /\ request.todo = t /\ request.user = u
  BY <1>1, RowsThere, BlankIsCall DEF Call, Email
<1> HIDE DEF request
<1>5. Knows(users, ucodes, Reached', Claimed', Received, request.todo, request)
  BY <1>1, <1>4, PlainKnows
<1> QED
  BY <1>2, <1>3, <1>4, <1>5, AcceptKeeps

LEMMA LogoutKeeps ==
    ASSUME IInv, NEW h \in Handlers, NEW u \in Present,
           Logout(h, u)
    PROVE  IInv'
<1> DEFINE t == <<"drop">>
           request == [Blank EXCEPT !.todo = t, !.user = u]
<1>1. t = ToDrop /\ t \in Seq(Steps)
  BY TodosAreSteps DEF ToDrop, Todos
<1>2. Accept(h, "LOGOUT", request)
  BY DEF Logout, t
<1>3. /\ vouched' = vouched /\ vouched \subseteq Addresses
      /\ typed' = typed /\ typed \subseteq Addresses
  BY DEF Logout, credit, IInv, TypeOK
<1> HIDE DEF t
<1>4. /\ request \in Call /\ request.todo = t /\ request.user = u
  BY <1>1, RowsThere, BlankIsCall DEF Call, Email
<1> HIDE DEF request
<1>5. Knows(users, ucodes, Reached', Claimed', Received, request.todo, request)
  BY <1>1, <1>4, PlainKnows
<1> QED
  BY <1>2, <1>3, <1>4, <1>5, AcceptKeeps

LEMMA AdminSetEmailKeeps ==
    ASSUME IInv, NEW h \in Handlers, NEW u \in Present, NEW a \in Addresses,
           AdminSetEmail(h, u, a)
    PROVE  IInv'
<1> DEFINE t == <<"move">>
           request == [Blank EXCEPT !.todo = t, !.user = u, !.email = a]
<1>1. t = ToMove /\ t \in Seq(Steps)
  BY TodosAreSteps DEF ToMove, Todos
<1>2. Accept(h, "ADMIN_EMAIL", request)
  BY DEF AdminSetEmail, t
<1>3. /\ vouched \subseteq vouched' /\ vouched' \subseteq Addresses /\ a \in Reached'
      /\ typed \subseteq typed' /\ typed' \subseteq Addresses
  BY DEF AdminSetEmail, IInv, TypeOK, Reached
<1> HIDE DEF t
<1>4. /\ request \in Call /\ request.todo = t /\ request.user = u /\ request.email = a
      /\ request.code = 0
  BY <1>1, RowsThere, BlankIsCall DEF Call, Email
<1> HIDE DEF request
<1>5. Knows(users, ucodes, Reached', Claimed', Received, request.todo, request)
  BY <1>1, <1>3, <1>4, RowsThere, SentinelsAreNoAddresses, Distinct DEF Knows, Todos
<1> QED
  BY <1>2, <1>3, <1>4, <1>5, AcceptKeeps

LEMMA LoginKeeps ==
    ASSUME IInv, NEW h \in Handlers, NEW a \in Addresses, Login(h, a)
    PROVE  IInv'
<1>1. PICK u \in HolderOf(a) :
         /\ Accept(h, "LOGIN", [Blank EXCEPT
                !.todo = IF users[u].enabled THEN <<"compare", "login", "store">>
                         ELSE <<"compare", "store">>,
                !.user = u, !.email = a])
         /\ UNCHANGED credit
  BY DEF Login
<1> DEFINE t == IF users[u].enabled THEN <<"compare", "login", "store">>
                ELSE <<"compare", "store">>
           request == [Blank EXCEPT !.todo = t, !.user = u, !.email = a]
<1>2. t \in {ToLogin, ToLogin2} /\ t \in Seq(Steps)
  BY TodosAreSteps DEF ToLogin, ToLogin2, Todos
<1>3. /\ Accept(h, "LOGIN", request) /\ vouched' = vouched /\ vouched \subseteq Addresses
      /\ typed' = typed /\ typed \subseteq Addresses
  BY <1>1 DEF t, credit, IInv, TypeOK
<1> HIDE DEF t
<1>4. request \in Call /\ request.todo = t
  BY <1>2, RowsThere, BlankIsCall DEF Call, Email
<1> HIDE DEF request
<1>5. Knows(users, ucodes, Reached', Claimed', Received, request.todo, request)
  BY <1>2, <1>4, PlainKnows
<1> QED
  BY <1>3, <1>4, <1>5, AcceptKeeps

LEMMA TwoFactorKeeps ==
    ASSUME IInv, NEW h \in Handlers, NEW u \in Present,
           NEW what \in {"generate", "enable", "disable"}, TwoFactor(h, u, what)
    PROVE  IInv'
<1> DEFINE t == <<what>>
           request == [Blank EXCEPT !.todo = t, !.user = u]
<1>1. t \in {ToGenerate, ToEnable, ToDisable} /\ t \in Seq(Steps)
  BY TodosAreSteps DEF ToGenerate, ToEnable, ToDisable, Todos
<1>2. /\ Accept(h, "TWO_FACTOR", request) /\ vouched' = vouched /\ vouched \subseteq Addresses
      /\ typed' = typed /\ typed \subseteq Addresses
  BY DEF TwoFactor, t, credit, IInv, TypeOK
<1> HIDE DEF t
<1>3. request \in Call /\ request.todo = t
  BY <1>1, RowsThere, BlankIsCall DEF Call, Email
<1> HIDE DEF request
<1>4. Knows(users, ucodes, Reached', Claimed', Received, request.todo, request)
  BY <1>1, <1>3, PlainKnows
<1> QED
  BY <1>2, <1>3, <1>4, AcceptKeeps

(* Whatever the look by the provider's id finds.                           *)
LEMMA SignInKeeps ==
    ASSUME IInv, NEW h \in Handlers, NEW s \in Subjects, NEW a \in Addresses \cup {None},
           NEW signed \in BOOLEAN, SignIn(h, s, a, signed)
    PROVE  IInv'
<1>1. PICK u \in Linked(s) \cup (IF Linked(s) = {} THEN {0} ELSE {}) :
         Accept(h, "SIGN_IN", [Blank EXCEPT
            !.todo = IF u # 0 THEN <<"store">>
                     ELSE IF a # None THEN <<"match">> ELSE <<"adopt", "store">>,
            !.user = u, !.email = a, !.subject = s])
  BY DEF SignIn
<1> DEFINE t == IF u # 0 THEN <<"store">>
                ELSE IF a # None THEN <<"match">> ELSE <<"adopt", "store">>
           request == [Blank EXCEPT !.todo = t, !.user = u, !.email = a, !.subject = s]
<1>2. /\ t \in {ToStore, ToMatch, ToAdopt} /\ t \in Seq(Steps)
      /\ t = ToMatch => a # None
  <2>1. ToStore # ToMatch /\ ToAdopt # ToMatch
    BY Tails
  <2> QED
    BY <2>1, TodosAreSteps DEF ToStore, ToMatch, ToAdopt, Todos
<1>3. Accept(h, "SIGN_IN", request)
  BY <1>1 DEF t
<1>4. /\ vouched \subseteq vouched' /\ vouched' \subseteq Addresses
      /\ typed \subseteq typed' /\ typed' \subseteq Addresses
      /\ a # None => a \in Claimed'
  BY DEF SignIn, IInv, TypeOK, Reached, Claimed
<1> HIDE DEF t
<1>5. u \in Nat
  BY RowsThere DEF Linked
<1>6. /\ request \in Call /\ request.todo = t /\ request.email = a
      /\ request.subject = s
  BY <1>2, <1>5, BlankIsCall DEF Call, Email
<1> HIDE DEF request
<1>7. Knows(users, ucodes, Reached', Claimed', Received, request.todo, request)
  <2>1. CASE t = ToStore
    BY <1>6, <2>1, PlainKnows
  <2>2. CASE t = ToMatch
    BY <1>2, <1>4, <1>6, <2>2, Distinct DEF Knows, Todos
  <2>3. CASE t = ToAdopt
    BY <1>2, <1>4, <1>6, <2>3, Distinct DEF Knows, Todos
  <2> QED
    BY <1>2, <2>1, <2>2, <2>3
<1> QED
  BY <1>3, <1>4, <1>6, <1>7, AcceptKeeps

LEMMA RequestKeeps ==
    ASSUME IInv, NEW h \in Handlers, Request(h)
    PROVE  IInv'
<1>1. CASE EntryRequest(h)
  BY <1>1, RegisterKeeps, LoginKeeps DEF EntryRequest
<1>2. CASE CodeRequest(h)
  BY <1>2, AskForCodeKeeps, VerifyEmailKeeps, ResetPasswordKeeps DEF CodeRequest
<1>3. CASE ProfileRequest(h)
  BY <1>3, ChangePasswordKeeps, RequestEmailChangeKeeps, ChangeEmailKeeps DEF ProfileRequest
<1>4. CASE FactorRequest(h)
  BY <1>4, TwoFactorKeeps DEF FactorRequest
<1>5. CASE AccountRequest(h)
  BY <1>5, DeleteAccountKeeps, HelpSupportKeeps DEF AccountRequest
<1>6. CASE ProviderRequest(h)
  BY <1>6, SignInKeeps DEF ProviderRequest
<1>7. CASE AdminRequest(h)
  BY <1>7, AdminSetEmailKeeps DEF AdminRequest
<1>8. CASE \E u \in Present : Logout(h, u)
  BY <1>8, LogoutKeeps
<1> QED
  BY <1>1, <1>2, <1>3, <1>4, <1>5, <1>6, <1>7, <1>8 DEF Request

---------------------------------------------------------------------------
(* The steps that only end a call, and those of codes and mails *)

LEMMA MatchKeeps ==
    ASSUME IInv, NEW h \in Handlers, Match(h)
    PROVE  IInv'
<1>1. /\ Knows(users, ucodes, Reached, Claimed, Received, call[h].todo, call[h]) /\ call[h] \in Call
      /\ call[h].todo = ToMatch
  <2>1. call[h].todo # <<>> /\ Head(call[h].todo) = "match"
    BY DEF Match, At
  <2> QED
    BY <2>1, CallAt, Heads
<1>2. call[h].email \in Claimed /\ call[h].email \in Addresses /\ call[h].subject \in Subjects
  BY <1>1 DEF Knows
<1>3. UNCHANGED <<tables, post, credit, calls, failures>> /\ UNCHANGED history /\ Spendings'
  BY HistoryStays DEF Match
<1>4. Grows
  BY <1>3, GrowsWithVouched, HistoryStays DEF tables, post
<1>5. ToLink \in Seq(Steps) /\ ToAdopt \in Seq(Steps)
  BY TodosAreSteps DEF Todos
<1>6. CASE \E u \in HolderOf(call[h].email) :
             call' = [call EXCEPT ![h].todo = <<"link", "store">>,
                                  ![h].user = u, ![h].seen = users[u].ids]
  <2>1. PICK u \in HolderOf(call[h].email) :
             call' = [call EXCEPT ![h].todo = <<"link", "store">>,
                                  ![h].user = u, ![h].seen = users[u].ids]
    BY <1>6
  <2> DEFINE k == [call[h] EXCEPT !.todo = ToLink, !.user = u, !.seen = users[u].ids]
  <2>2. call' = [call EXCEPT ![h] = k]
    BY <2>1 DEF ToLink, IInv, TypeOK
  <2>3. u \in DOMAIN users /\ u \in Nat /\ users[u].email = call[h].email
        /\ users[u].ids \subseteq Subjects
    BY <1>2, RowsThere, RowsAreRows DEF IInv, User
  <2>4. /\ k \in Call /\ k.todo = ToLink /\ k.user = u /\ k.email = call[h].email
        /\ k.subject = call[h].subject
    BY <1>1, <1>5, <2>3 DEF Call
  <2> HIDE DEF k
  <2>5. Knows(users, ucodes, Reached, Claimed, Received, k.todo, k)
    BY <1>2, <2>3, <2>4, Distinct DEF Knows, Todos
  <2>6. CallsKnow' /\ call' \in [Handlers -> Call]
    BY <1>4, <2>2, <2>4, <2>5, KnowsStays, OneCallMoves
  <2> QED
    BY <1>3, <2>6, ReadStepKeeps
<1>7. CASE call' = [call EXCEPT ![h].todo = <<"adopt", "store">>]
  <2> DEFINE k == [call[h] EXCEPT !.todo = ToAdopt]
  <2>1. call' = [call EXCEPT ![h] = k]
    BY <1>7 DEF ToAdopt, IInv, TypeOK
  <2>2. /\ k \in Call /\ k.todo = ToAdopt /\ k.email = call[h].email
        /\ k.subject = call[h].subject
    BY <1>1, <1>5 DEF Call
  <2> HIDE DEF k
  <2>3. Knows(users, ucodes, Reached, Claimed, Received, k.todo, k)
    BY <1>2, <2>2, Distinct DEF Knows, Todos
  <2>4. CallsKnow' /\ call' \in [Handlers -> Call]
    BY <1>4, <2>1, <2>2, <2>3, KnowsStays, OneCallMoves
  <2> QED
    BY <1>3, <2>4, ReadStepKeeps
<1> QED
  BY <1>6, <1>7 DEF Match

LEMMA TokenKeeps ==
    ASSUME IInv, NEW h \in Handlers, StoreToken(h) \/ DropToken(h)
    PROVE  IInv'
<1>1. /\ UNCHANGED <<users, ucodes, mailQueue, inbox, vouched, typed, used, cut, calls, failures>>
      /\ End(h)
  BY HistoryStays DEF StoreToken, DropToken, post
<1>2. CallsKnow' /\ call' \in [Handlers -> Call]
  BY <1>1, EndKeeps, GrowsWithVouched
<1>3. session' \subseteq Ids
  BY DEF StoreToken, DropToken, IInv, TypeOK, Present
<1>4. TypeOK'
  BY <1>1, <1>2, <1>3 DEF IInv, TypeOK, Ids
<1>5. Unique' /\ CodesHaveAddresses' /\ JobsOpenProved' /\ MailsOpenProved'
  BY <1>1 DEF IInv, Unique, Present, Ids, CodesHaveAddresses, JobsOpenProved,
              MailsOpenProved, Reached
<1> QED
  BY <1>1, <1>2, <1>4, <1>5 DEF IInv

(* The new code is of the address in hand, of the one the row has by now,  *)
(* or there is none.                                                       *)
LEMMA CreateTokenKeeps ==
    ASSUME IInv, NEW h \in Handlers, CreateToken(h)
    PROVE  IInv'
<1> DEFINE c == call[h]
           email == IF c.under # None THEN c.under ELSE users[c.user].email
           n == Len(ucodes) + 1
<1>1. /\ Knows(users, ucodes, Reached, Claimed, Received, c.todo, c) /\ c \in Call
      /\ c.todo # <<>> /\ c.todo = ToCode
  <2>1. c.todo # <<>> /\ Head(c.todo) = "code"
    BY DEF CreateToken, At
  <2> QED
    BY <2>1, CallAt, Heads
<1>2. /\ UNCHANGED <<users, session, mailQueue, inbox, vouched, typed, used, cut, calls, failures>>
      /\ Reached' = Reached /\ Claimed' = Claimed /\ Received' = Received
  BY HistoryStays DEF CreateToken, post, Reached, Claimed, Received
<1>3. Tail(c.todo) = ToMail
  BY <1>1, Tails
<1>4. CASE /\ c.user \in Present /\ users[c.user].email # None
           /\ ucodes' = Append(ucodes, [email |-> email, valid |-> TRUE])
           /\ Proceed(h, [c EXCEPT !.code = n])
  <2>1. /\ c.code = 0 /\ c.under \in {None, c.email} /\ c.email \in Email
        /\ c.under = None => users[c.user].email \in {c.email} \cup Reached \cup Nowhere
    BY <1>1, Tails DEF Knows, Call
  <2>2. /\ email \in {c.email} \cup Reached \cup Nowhere
        /\ email \in Email /\ email # None
    BY <1>4, <2>1, RowsThere
  <2> HIDE DEF email
  <2>3. /\ ucodes' \in Seq(Ucode) /\ Len(ucodes') = n /\ n \in 1..n /\ n \in Nat
        /\ DOMAIN ucodes' = 1..n /\ DOMAIN ucodes = 1..Len(ucodes) /\ Len(ucodes) \in Nat
        /\ ucodes'[n].email = email
        /\ \A k \in DOMAIN ucodes : ucodes'[k] = ucodes[k]
    <3>1. [email |-> email, valid |-> TRUE] \in Ucode
      BY <2>2 DEF Ucode
    <3> QED
      BY <1>4, <3>1, RowsAreRows, AppendProperties, LenProperties DEF IInv
  <2>4. Grows
    BY <1>2, <2>3 DEF Grows, Claimed
  <2> DEFINE k == [c EXCEPT !.code = n]
  <2>5. k \in Call /\ k.email = c.email /\ k.code = n
    BY <1>1, <2>3 DEF Call
  <2>6. Proceed(h, k)
    BY <1>4
  <2> HIDE DEF k, n
  <2>7. Knows(users', ucodes', Reached', Claimed', Received', ToMail, k)
    <3>1. n \in DOMAIN ucodes' /\ ucodes'[n].email \in {k.email} \cup Reached' \cup Nowhere
      BY <1>2, <2>2, <2>3, <2>5
    <3> QED
      BY <2>5, <3>1, Distinct DEF Knows, Todos
  <2>8. CallsKnow' /\ call' \in [Handlers -> Call]
    BY <1>1, <1>3, <2>4, <2>5, <2>6, <2>7, ProceedKeeps
  <2>9. TypeOK'
    BY <1>2, <2>3, <2>8 DEF IInv, TypeOK, Ids
  <2>10. Unique'
    BY <1>2 DEF IInv, Unique, Present, Ids
  <2>11. CodesHaveAddresses'
    <3>1. \A d \in DOMAIN ucodes' : d = n \/ d \in DOMAIN ucodes
      BY <2>3 DEF n
    <3> QED
      BY <2>2, <2>3, <3>1 DEF IInv, CodesHaveAddresses
  <2>12. JobsOpenProved' /\ MailsOpenProved'
    BY <1>2, <2>3, <2>4 DEF Grows, IInv, JobsOpenProved, MailsOpenProved
  <2> QED
    BY <1>2, <2>8, <2>9, <2>10, <2>11, <2>12 DEF IInv
<1>5. CASE Proceed(h, c) /\ UNCHANGED ucodes
  <2>1. Grows
    BY <1>2, <1>5, GrowsWithVouched
  <2>2. c.code = 0
    BY <1>1 DEF Knows
  <2>3. Knows(users, ucodes, Reached, Claimed, Received, ToMail, c)
    BY <2>2, Distinct DEF Knows, Todos
  <2>4. CallsKnow' /\ call' \in [Handlers -> Call]
    BY <1>1, <1>3, <1>5, <2>1, <2>3, KnowsStays, ProceedKeeps
  <2> QED
    BY <1>2, <1>5, <2>4, ReadStepKeeps, HistoryStays DEF CreateToken, tables, post
<1> QED
  BY <1>4, <1>5 DEF CreateToken

(* Accounts, codes and calls as they were; mails on their way to where     *)
(* their codes belong.                                                     *)
LEMMA PostKeeps ==
    ASSUME IInv, call' \in [Handlers -> Call], CallsKnow', Grows,
           UNCHANGED <<tables, history, calls>>, failures' \in 0..MaxFailures,
           mailQueue' \subseteq Job, inbox' \subseteq Addresses \X Nat,
           JobsOpenProved', MailsOpenProved'
    PROVE  IInv'
<1>1. TypeOK'
  BY HistoryStays DEF tables, IInv, TypeOK, Ids
<1>2. Unique' /\ CodesHaveAddresses'
  BY DEF tables, IInv, Unique, Present, Ids, CodesHaveAddresses
<1> QED
  BY <1>1, <1>2 DEF tables, IInv

LEMMA EnqueueKeeps ==
    ASSUME IInv, NEW h \in Handlers, NEW job \in Job, Enqueue(h, job),
           job.name = "sendOtpCodeToEmail" /\ job.code # 0 =>
                /\ job.code \in DOMAIN ucodes
                /\ ucodes[job.code].email \in {job.to} \cup Reached \cup Nowhere
    PROVE  IInv'
<1>1. /\ UNCHANGED <<users, ucodes, session, inbox, vouched, typed, history, calls>> /\ End(h)
      /\ mailQueue' = mailQueue \cup {job} \/ mailQueue' = mailQueue
      /\ failures' \in 0..MaxFailures
  BY BoundsAreNumbers, HistoryStays DEF Enqueue, tables, IInv, TypeOK
<1>2. Grows
  BY <1>1, GrowsWithVouched
<1>3. CallsKnow' /\ call' \in [Handlers -> Call]
  BY <1>1, <1>2, EndKeeps
<1>4. Reached' = Reached
  BY <1>1 DEF Reached
<1>5. JobsOpenProved'
  BY <1>1, <1>4 DEF IInv, JobsOpenProved
<1>6. MailsOpenProved'
  BY <1>1, <1>4 DEF IInv, MailsOpenProved
<1>7. mailQueue' \subseteq Job /\ inbox' \subseteq Addresses \X Nat
  BY <1>1 DEF IInv, TypeOK
<1> QED
  BY <1>1, <1>2, <1>3, <1>5, <1>6, <1>7, PostKeeps DEF tables

LEMMA SendKeeps ==
    ASSUME IInv, NEW h \in Handlers, SendOtpCodeToEmail(h) \/ SendSupportRequest(h)
    PROVE  IInv'
<1>1. CASE SendOtpCodeToEmail(h)
  <2> DEFINE job == [ name |-> "sendOtpCodeToEmail", to |-> call[h].email,
                      code |-> call[h].code ]
  <2>1. /\ Knows(users, ucodes, Reached, Claimed, Received, call[h].todo, call[h])
        /\ call[h] \in Call /\ call[h].todo = ToMail
    <3>1. call[h].todo # <<>> /\ Head(call[h].todo) = "mail"
      BY <1>1 DEF SendOtpCodeToEmail, At
    <3> QED
      BY <3>1, CallAt, Heads
  <2>2. call[h].code # 0 =>
          /\ call[h].code \in DOMAIN ucodes
          /\ ucodes[call[h].code].email \in {call[h].email} \cup Reached \cup Nowhere
    BY <2>1 DEF Knows
  <2>3. job \in Job /\ job.code = call[h].code /\ job.to = call[h].email
    BY <2>1 DEF Job, Call
  <2>4. Enqueue(h, job)
    BY <1>1 DEF SendOtpCodeToEmail
  <2> HIDE DEF job
  <2> QED
    BY <2>2, <2>3, <2>4, EnqueueKeeps
<1>2. CASE SendSupportRequest(h)
  <2> DEFINE job == [ name |-> "sendSupportRequest", to |-> None, code |-> 0 ]
  <2>1. job \in Job /\ job.code = 0
    BY DEF Job, Email
  <2>2. Enqueue(h, job)
    BY <1>2 DEF SendSupportRequest
  <2> HIDE DEF job
  <2> QED
    BY <2>1, <2>2, EnqueueKeeps
<1> QED
  BY <1>1, <1>2

(* A mail that arrives makes its mailbox one that has answered.            *)
LEMMA DeliverKeeps ==
    ASSUME IInv, NEW job \in mailQueue, Work(job) \/ WorkFails(job)
    PROVE  IInv'
<1>1. /\ UNCHANGED <<users, ucodes, session, vouched, typed, history, call, calls>>
      /\ mailQueue' \subseteq mailQueue /\ inbox \subseteq inbox'
      /\ failures' \in 0..MaxFailures
  BY BoundsAreNumbers, HistoryStays DEF Work, WorkFails, Deliver, tables, IInv, TypeOK
<1>2. Grows
  BY <1>1 DEF Grows, Reached, Claimed, Received
<1>3. CallsKnow'
  BY <1>1, <1>2, CallsStay DEF IInv
<1>4. mailQueue' \subseteq Job /\ call' \in [Handlers -> Call]
  BY <1>1 DEF IInv, TypeOK
<1>5. \A m \in inbox' :
         \/ m \in inbox
         \/ /\ m = <<job.to, job.code>>
            /\ job.name \in Handles /\ job.to \in Addresses /\ job.code # 0
  BY DEF Work, WorkFails, Deliver
<1>6. job.name = "sendOtpCodeToEmail" \/ job.name = "sendSupportRequest"
  BY DEF IInv, TypeOK, Job
<1>7. inbox' \subseteq Addresses \X Nat
  BY <1>5 DEF IInv, TypeOK, Job
<1>8. JobsOpenProved'
  BY <1>1, <1>2 DEF Grows, IInv, JobsOpenProved
<1>9. MailsOpenProved'
  <2> SUFFICES ASSUME NEW m \in inbox'
               PROVE  m[2] \in DOMAIN ucodes /\ ucodes[m[2]].email \in Reached' \cup Nowhere
    BY <1>1 DEF MailsOpenProved
  <2>1. CASE m \in inbox
    BY <1>2, <2>1 DEF Grows, IInv, MailsOpenProved
  <2>2. CASE /\ m = <<job.to, job.code>>
             /\ job.name \in Handles /\ job.to \in Addresses /\ job.code # 0
    <3>1. job.name = "sendOtpCodeToEmail"
      BY <1>6, <2>2 DEF Handles
    <3>2. /\ job.code \in DOMAIN ucodes
          /\ ucodes[job.code].email \in {job.to} \cup Reached \cup Nowhere
      BY <2>2, <3>1 DEF IInv, JobsOpenProved
    <3>3. job.to \in Reached'
      BY <2>2 DEF Reached
    <3> QED
      BY <1>2, <2>2, <3>2, <3>3 DEF Grows
  <2> QED
    BY <1>5, <2>1, <2>2
<1> QED
  BY <1>1, <1>2, <1>3, <1>4, <1>7, <1>8, <1>9, PostKeeps DEF tables

(* Codes that only lose their validity.                                    *)
LEMMA CodesFade ==
    ASSUME IInv, NEW c \in DOMAIN ucodes, NEW b \in BOOLEAN, b => ucodes[c].valid,
           ucodes' = [ucodes EXCEPT ![c].valid = b]
    PROVE  /\ ucodes' \in Seq(Ucode) /\ DOMAIN ucodes' = DOMAIN ucodes
           /\ ucodes'[c].valid = b
           /\ \A k \in DOMAIN ucodes : ucodes'[k].email = ucodes[k].email
                                       /\ (ucodes'[k].valid => ucodes[k].valid)
<1> DEFINE row == [ucodes[c] EXCEPT !.valid = b]
<1>1. ucodes \in Seq(Ucode) /\ ucodes[c] \in Ucode
  BY RowsAreRows DEF IInv
<1>2. row \in Ucode /\ row.email = ucodes[c].email /\ row.valid = b
  BY <1>1 DEF Ucode
<1>3. ucodes' = [ucodes EXCEPT ![c] = row]
  OBVIOUS
<1> HIDE DEF row
<1>4. ucodes' \in Seq(Ucode) /\ DOMAIN ucodes' = DOMAIN ucodes
      /\ \A k \in DOMAIN ucodes : ucodes'[k] = IF k = c THEN row ELSE ucodes[k]
  BY <1>1, <1>2, <1>3, ExceptSeq
<1> QED
  BY <1>2, <1>4

LEMMA FadeKeeps ==
    ASSUME IInv, call' \in [Handlers -> Call], CallsKnow',
           UNCHANGED <<users, session, mailQueue, inbox, history, calls, failures>>,
           ucodes' \in Seq(Ucode), DOMAIN ucodes' = DOMAIN ucodes,
           \A k \in DOMAIN ucodes : ucodes'[k].email = ucodes[k].email
    PROVE  IInv'
<1>0. UNCHANGED <<vouched, typed, used, cut>>
  BY HistoryStays
<1>1. TypeOK'
  BY <1>0 DEF IInv, TypeOK, Ids
<1>2. Unique'
  BY DEF IInv, Unique, Present, Ids
<1>3. CodesHaveAddresses' /\ JobsOpenProved' /\ MailsOpenProved'
  BY <1>0 DEF IInv, CodesHaveAddresses, JobsOpenProved, MailsOpenProved, Reached
<1> QED
  BY <1>1, <1>2, <1>3 DEF IInv

LEMMA ExpireKeeps ==
    ASSUME IInv, NEW c \in DOMAIN ucodes, Expire(c)
    PROVE  IInv'
<1>1. UNCHANGED <<users, session, mailQueue, inbox, vouched, typed, history, call, calls, failures>>
  BY HistoryStays DEF Expire, post
<1>2. /\ ucodes' \in Seq(Ucode) /\ DOMAIN ucodes' = DOMAIN ucodes
      /\ \A k \in DOMAIN ucodes : ucodes'[k].email = ucodes[k].email
                                  /\ (ucodes'[k].valid => ucodes[k].valid)
  BY CodesFade DEF Expire
<1>3. Grows
  BY <1>1, <1>2 DEF Grows, Reached, Claimed, Received
<1>4. CallsKnow'
  BY <1>1, <1>3, CallsStay DEF IInv
<1>5. call' \in [Handlers -> Call]
  BY <1>1 DEF IInv, TypeOK
<1> QED
  BY <1>1, <1>2, <1>4, <1>5, FadeKeeps

LEMMA SpendKeeps ==
    ASSUME IInv, NEW h \in Handlers, Spend(h)
    PROVE  IInv'
<1> DEFINE a == call[h].email
           c == call[h].code
           b == ucodes[c].valid /\ ucodes[c].email # a
<1>1. /\ Knows(users, ucodes, Reached, Claimed, Received, call[h].todo, call[h])
      /\ call[h] \in Call /\ call[h].todo = ToSpend
  <2>1. call[h].todo # <<>> /\ Head(call[h].todo) = "spend"
    BY DEF Spend, At
  <2> QED
    BY <2>1, CallAt, Heads
<1>2. a \in Addresses /\ c \in DOMAIN ucodes /\ c \in Nat
  BY <1>1 DEF Knows, Call
<1>3. /\ UNCHANGED <<users, session, mailQueue, inbox, vouched, typed, history, calls, failures>>
      /\ End(h)
      /\ ucodes' = [ucodes EXCEPT ![c].valid = b]
  BY <1>2, HistoryStays DEF Spend, post
<1>4. b \in BOOLEAN /\ (b => ucodes[c].valid)
  <2>1. ucodes[c] \in Ucode
    BY <1>2, RowsAreRows DEF IInv
  <2> QED
    BY <2>1 DEF Ucode
<1> HIDE DEF a, b, c
<1>6. /\ ucodes' \in Seq(Ucode) /\ DOMAIN ucodes' = DOMAIN ucodes
      /\ ucodes'[c].valid = b
      /\ \A k \in DOMAIN ucodes : ucodes'[k].email = ucodes[k].email
                                  /\ (ucodes'[k].valid => ucodes[k].valid)
  BY <1>2, <1>3, <1>4, CodesFade
<1>7. Grows
  BY <1>3, <1>6 DEF Grows, Reached, Claimed, Received
<1>8. CallsKnow' /\ call' \in [Handlers -> Call]
  BY <1>3, <1>7, EndKeeps
<1> QED
  BY <1>3, <1>6, <1>8, FadeKeeps

---------------------------------------------------------------------------
(* The steps that write rows *)

LEMMA RowChanges ==
    ASSUME IInv, NEW u \in Present, NEW row \in User, users' = [users EXCEPT ![u] = row]
    PROVE  /\ users' \in Seq(User) /\ Len(users') = Len(users) /\ DOMAIN users' = DOMAIN users
           /\ u \in DOMAIN users
           /\ \A w \in DOMAIN users : users'[w] = IF w = u THEN row ELSE users[w]
<1>1. users \in Seq(User) /\ u \in DOMAIN users
  BY RowsAreRows DEF IInv, Present, Ids
<1> QED
  BY <1>1, ExceptSeq, LenProperties

(* A row may move to an address nobody else has and somebody has answered  *)
(* for, or to none.                                                        *)
LEMMA RowGrows ==
    ASSUME IInv, NEW u \in Present, NEW row \in User, users' = [users EXCEPT ![u] = row],
           row.email \in {users[u].email} \cup Reached \cup Nowhere,
           UNCHANGED <<ucodes, inbox, vouched, typed>>
    PROVE  Grows
BY RowChanges DEF Grows, Reached, Claimed, Received

LEMMA RowKeeps ==
    ASSUME IInv, NEW u \in Present, NEW row \in User, users' = [users EXCEPT ![u] = row],
           \/ row.email \in {users[u].email} \cup Nowhere
           \/ row.email \in Addresses /\ HolderOf(row.email) \subseteq {u},
           call' \in [Handlers -> Call], CallsKnow', Spendings',
           UNCHANGED <<ucodes, session, post, credit, calls, failures>>
    PROVE  IInv'
<1>1. /\ users' \in Seq(User) /\ Len(users') = Len(users) /\ DOMAIN users' = DOMAIN users
      /\ u \in DOMAIN users
      /\ \A w \in DOMAIN users : users'[w] = IF w = u THEN row ELSE users[w]
  BY RowChanges
<1>2. TypeOK'
  BY <1>1 DEF IInv, TypeOK, Ids, post, credit, Spendings
<1>3. Unique'
  <2> SUFFICES ASSUME NEW v \in Present', NEW w \in Present', v # w,
                      users'[v].email = users'[w].email, users'[v].email \in Addresses
               PROVE  FALSE
    BY DEF Unique
  <2>1. Present' \subseteq Present \cup {u}
    BY <1>1 DEF Present, Ids
  <2>2. v \in Present /\ w \in Present /\ v \in DOMAIN users /\ w \in DOMAIN users
    BY <2>1 DEF Present, Ids
  <2>3. CASE v # u /\ w # u
    BY <1>1, <2>2, <2>3 DEF IInv, Unique
  <2>4. ASSUME NEW x \in Present, x # u, users[x].email = row.email, row.email \in Addresses
        PROVE  FALSE
    <3>1. x \in HolderOf(row.email)
      BY <2>4 DEF HolderOf
    <3>2. row.email = users[u].email
      BY <2>4, <3>1, SentinelsAreNoAddresses DEF Nowhere
    <3> QED
      BY <2>4, <3>2 DEF IInv, Unique
  <2> QED
    BY <1>1, <2>2, <2>3, <2>4
<1>4. CodesHaveAddresses' /\ JobsOpenProved' /\ MailsOpenProved'
  BY DEF IInv, CodesHaveAddresses, JobsOpenProved, MailsOpenProved, Reached, post, credit
<1> QED
  BY <1>1, <1>2, <1>3, <1>4 DEF IInv

LEMMA UpdateKeeps ==
    ASSUME IInv, NEW h \in Handlers, call[h].todo # <<>>, NEW u,
           NEW row, u \in Present => row \in User,
           Update(h, u, row),
           u \in Present =>
              \/ row.email \in {users[u].email} \cup Nowhere
              \/ /\ row.email \in Addresses /\ row.email \in Reached
                 /\ HolderOf(row.email) \subseteq {u},
           Tail(call[h].todo) # <<>> =>
                Knows(users, ucodes, Reached, Claimed, Received, Tail(call[h].todo), call[h]),
           UNCHANGED <<ucodes, session, post, credit, calls, failures>>, Spendings'
    PROVE  IInv'
<1>1. CASE u \in Present
  <2>1. users' = [users EXCEPT ![u] = row] /\ Proceed(h, call[h])
    BY <1>1 DEF Update
  <2>2. Grows
    BY <1>1, <2>1, RowGrows DEF post, credit
  <2>3. call[h] \in Call
    BY DEF IInv, TypeOK
  <2>4. CallsKnow' /\ call' \in [Handlers -> Call]
    BY <2>1, <2>2, <2>3, KnowsStays, ProceedKeeps
  <2>5. \/ row.email \in {users[u].email} \cup Nowhere
        \/ row.email \in Addresses /\ HolderOf(row.email) \subseteq {u}
    BY <1>1
  <2> QED
    BY <1>1, <2>1, <2>4, <2>5, RowKeeps
<1>2. CASE u \notin Present
  <2>1. UNCHANGED users /\ End(h)
    BY <1>2 DEF Update
  <2>2. CallsKnow' /\ call' \in [Handlers -> Call]
    BY <2>1, EndKeeps, GrowsWithVouched DEF post, credit
  <2> QED
    BY <2>1, <2>2, ReadStepKeeps DEF tables
<1> QED
  BY <1>1, <1>2

LEMMA GiveUpKeeps ==
    ASSUME IInv, NEW h \in Handlers, End(h), UNCHANGED users,
           UNCHANGED <<ucodes, session, post, history, calls, failures>>
    PROVE  IInv'
<1>1. CallsKnow' /\ call' \in [Handlers -> Call]
  BY EndKeeps, GrowsWithVouched, HistoryStays DEF post
<1> QED
  BY <1>1, ReadStepKeeps, HistoryStays DEF tables

(* The rows the calls write, each from the row it was. *)
VerifiedRow(row) == [row EXCEPT !.verified = TRUE]
RekeyedRow(row) == [row EXCEPT !.password = TRUE]
ReadressedRow(row, e) == [row EXCEPT !.email = e]
TombRow(row, e) == [row EXCEPT !.state = "deleted", !.ids = {}, !.email = e]

LEMMA VerifiedRowIsRow ==
    ASSUME NEW row \in User
    PROVE  /\ VerifiedRow(row) \in User /\ VerifiedRow(row).email = row.email
           /\ VerifiedRow(row).verified /\ VerifiedRow(row).state = row.state
BY DEF VerifiedRow, User

LEMMA RekeyedRowIsRow ==
    ASSUME NEW row \in User
    PROVE  /\ RekeyedRow(row) \in User /\ RekeyedRow(row).email = row.email
           /\ RekeyedRow(row).verified = row.verified /\ RekeyedRow(row).state = row.state
BY DEF RekeyedRow, User

LEMMA ReadressedRowIsRow ==
    ASSUME NEW row \in User, NEW e \in Email
    PROVE  /\ ReadressedRow(row, e) \in User /\ ReadressedRow(row, e).email = e
           /\ ReadressedRow(row, e).verified = row.verified
           /\ ReadressedRow(row, e).state = row.state
BY DEF ReadressedRow, User

LEMMA TombRowIsRow ==
    ASSUME NEW row \in User, NEW e \in Email
    PROVE  /\ TombRow(row, e) \in User /\ TombRow(row, e).email = e
           /\ TombRow(row, e).verified = row.verified
           /\ TombRow(row, e).state = "deleted"
BY DEF TombRow, User

LEMMA PresentRows ==
    ASSUME IInv, NEW u \in Present
    PROVE  users[u] \in User /\ users[u].state # "erased"
BY RowsAreRows DEF IInv, Present, Ids

LEMMA VerifyKeeps ==
    ASSUME IInv, NEW h \in Handlers, Verify(h)
    PROVE  IInv'
<1> DEFINE u == call[h].user
           row == VerifiedRow(users[u])
<1>1. call[h].todo # <<>> /\ Tail(call[h].todo) = <<>>
  <2>1. call[h].todo # <<>> /\ Head(call[h].todo) = "verify"
    BY DEF Verify, At
  <2>2. call[h].todo = ToVerify
    BY <2>1, CallAt, Heads
  <2> QED
    BY <2>1, <2>2, Tails
<1>2. u \in Present => row \in User /\ row.email = users[u].email
  BY PresentRows, VerifiedRowIsRow
<1>3. Update(h, u, row) /\ UNCHANGED <<ucodes, session, post, history, calls, failures>>
  BY DEF Verify, VerifiedRow
<1> HIDE DEF u, row
<1> QED
  BY <1>1, <1>2, <1>3, UpdateKeeps, HistoryStays

LEMMA UsedHasAddress ==
    ASSUME IInv, NEW h \in Handlers, NEW u, NEW row, ChangeBy(h, u, row),
           call[h].code # 0 => call[h].email \in Addresses, cut' = cut
    PROVE  Spendings'
<1>1. call[h].code \in Nat
  BY DEF IInv, TypeOK, Call
<1> QED
  BY <1>1 DEF ChangeBy, Spendings, IInv, TypeOK

LEMMA RekeyKeeps ==
    ASSUME IInv, NEW h \in Handlers, Rekey(h)
    PROVE  IInv'
<1>1. UNCHANGED <<ucodes, session, post, credit, calls, failures>> /\ cut' = cut
  BY DEF Rekey
<1>2. CASE UNCHANGED <<users, used>> /\ End(h)
  BY <1>1, <1>2, GiveUpKeeps DEF history, spending
<1>3. CASE \E u \in HolderOf(call[h].email) :
               ChangeBy(h, u, [users[u] EXCEPT !.password = TRUE])
  <2>1. PICK u \in HolderOf(call[h].email) :
               ChangeBy(h, u, [users[u] EXCEPT !.password = TRUE])
    BY <1>3
  <2> DEFINE row == RekeyedRow(users[u])
  <2>2. u \in Present => row \in User /\ row.email = users[u].email
    BY PresentRows, RekeyedRowIsRow
  <2>3. /\ Knows(users, ucodes, Reached, Claimed, Received, call[h].todo, call[h])
        /\ call[h].todo # <<>> /\ call[h].todo \in {ToRekeySpend, ToRekey}
    <3>1. call[h].todo # <<>> /\ Head(call[h].todo) = "rekey"
      BY DEF Rekey, At
    <3> QED
      BY <3>1, CallAt, Heads
  <2>4. Tail(call[h].todo) # <<>> =>
          /\ Tail(call[h].todo) = ToSpend
          /\ Knows(users, ucodes, Reached, Claimed, Received, ToSpend, call[h])
    <3>1. CASE call[h].todo = ToRekey
      BY <3>1, Tails
    <3>2. CASE call[h].todo = ToRekeySpend
      <4>1. call[h].email \in Addresses /\ call[h].code \in DOMAIN ucodes
        BY <2>3, <3>2 DEF Knows
      <4>2. Tail(call[h].todo) = ToSpend
        BY <3>2, Tails
      <4>3. ToSpend \in Todos
        BY DEF Todos
      <4> QED
        BY <4>1, <4>2, <4>3, Distinct DEF Knows
    <3> QED
      BY <2>3, <3>1, <3>2
  <2>5. Update(h, u, row)
    BY <2>1 DEF ChangeBy, RekeyedRow
  <2>6. call[h].code # 0 => call[h].email \in Addresses
    BY <2>3 DEF Knows
  <2>7. Spendings'
    BY <1>1, <2>1, <2>6, UsedHasAddress
  <2> HIDE DEF row
  <2> QED
    BY <1>1, <2>2, <2>3, <2>4, <2>5, <2>7, UpdateKeeps
<1> QED
  BY <1>2, <1>3 DEF Rekey

(* The new address is one that was answered for before the call got here.  *)
LEMMA MoveKeeps ==
    ASSUME IInv, NEW h \in Handlers, Move(h)
    PROVE  IInv'
<1> DEFINE u == call[h].user
           row == ReadressedRow(users[u], call[h].email)
<1>1. UNCHANGED <<ucodes, session, post, credit, calls, failures>> /\ cut' = cut
  BY DEF Move
<1>2. CASE UNCHANGED <<users, used>> /\ End(h)
  BY <1>1, <1>2, GiveUpKeeps DEF history, spending
<1>3. CASE HolderOf(call[h].email) \subseteq {u} /\ ChangeBy(h, u, row)
  <2>1. /\ Knows(users, ucodes, Reached, Claimed, Received, call[h].todo, call[h])
        /\ call[h].todo # <<>> /\ call[h].todo \in {ToMoveSpend, ToMove}
    <3>1. call[h].todo # <<>> /\ Head(call[h].todo) = "move"
      BY DEF Move, At
    <3> QED
      BY <3>1, CallAt, Heads
  <2>2. call[h].email \in Addresses /\ call[h].email \in Reached
    BY <2>1 DEF Knows
  <2>3. u \in Present => row \in User /\ row.email = call[h].email
    BY <2>2, PresentRows, ReadressedRowIsRow DEF Email
  <2>4. Tail(call[h].todo) # <<>> =>
          /\ Tail(call[h].todo) = ToSpend
          /\ Knows(users, ucodes, Reached, Claimed, Received, ToSpend, call[h])
    <3>1. CASE call[h].todo = ToMove
      BY <3>1, Tails
    <3>2. CASE call[h].todo = ToMoveSpend
      <4>1. call[h].code \in DOMAIN ucodes
        BY <2>1, <3>2 DEF Knows
      <4>2. Tail(call[h].todo) = ToSpend
        BY <3>2, Tails
      <4>3. ToSpend \in Todos
        BY DEF Todos
      <4> QED
        BY <2>2, <4>1, <4>2, <4>3, Distinct DEF Knows
    <3> QED
      BY <2>1, <3>1, <3>2
  <2>5. Spendings' /\ Update(h, u, row)
    BY <1>1, <1>3, <2>2, UsedHasAddress DEF ChangeBy
  <2> HIDE DEF u, row
  <2> QED
    BY <1>1, <1>3, <2>1, <2>2, <2>3, <2>4, <2>5, UpdateKeeps
<1> QED
  BY <1>2, <1>3 DEF Move, ReadressedRow

LEMMA BuryKeeps ==
    ASSUME IInv, NEW h \in Handlers, Bury(h)
    PROVE  IInv'
<1> DEFINE u == call[h].user
           e == IF call[h].email = None THEN users[u].email ELSE Unreachable
           row == TombRow(users[u], e)
<1>1. call[h].todo # <<>> /\ Tail(call[h].todo) = <<>>
  <2>1. call[h].todo # <<>> /\ Head(call[h].todo) = "bury"
    BY DEF Bury, At
  <2>2. call[h].todo = ToBury
    BY <2>1, CallAt, Heads
  <2> QED
    BY <2>1, <2>2, Tails
<1>2. u \in Present => row \in User /\ row.email \in {users[u].email, Unreachable}
  <2> SUFFICES ASSUME u \in Present
               PROVE  row \in User /\ row.email = e /\ e \in {users[u].email, Unreachable}
    OBVIOUS
  <2>1. users[u].email \in Email
    BY PresentRows DEF User
  <2>2. e \in Email /\ e \in {users[u].email, Unreachable}
    BY <2>1 DEF Email
  <2> HIDE DEF e
  <2> QED
    BY <2>2, PresentRows, TombRowIsRow
<1>3. Update(h, u, row) /\ UNCHANGED <<ucodes, session, post, history, calls, failures>>
  <2>1. u \in Present =>
          row = [users[u] EXCEPT !.state = "deleted", !.ids = {},
                   !.email = IF call[h].email = None THEN @ ELSE Unreachable]
    BY PresentRows DEF User, TombRow
  <2> HIDE DEF row
  <2> QED
    BY <2>1 DEF Bury, Update
<1> HIDE DEF u, e, row
<1>4. u \in Present => row.email \in {users[u].email} \cup Nowhere
  BY <1>2 DEF Nowhere
<1> QED
  BY <1>1, <1>2, <1>3, <1>4, UpdateKeeps, HistoryStays

LinkedRow(row, s, id) == [row EXCEPT !.ids = (@ \ OfProvider(s)) \cup id, !.verified = TRUE]

LEMMA LinkedRowIsRow ==
    ASSUME NEW row \in User, NEW s, NEW id \in SUBSET Subjects
    PROVE  /\ LinkedRow(row, s, id) \in User /\ LinkedRow(row, s, id).email = row.email
           /\ LinkedRow(row, s, id).verified /\ LinkedRow(row, s, id).state = row.state
<1> DEFINE i == (row.ids \ OfProvider(s)) \cup id
<1>1. i \subseteq Subjects
  BY DEF User
<1>2. LinkedRow(row, s, id) = [row EXCEPT !.ids = i, !.verified = TRUE]
  BY DEF LinkedRow, User
<1> HIDE DEF i
<1> QED
  BY <1>1, <1>2 DEF User

LEMMA LinkKeeps ==
    ASSUME IInv, NEW h \in Handlers, Link(h)
    PROVE  IInv'
<1> DEFINE s == call[h].subject
           had == call[h].seen \cap OfProvider(s)
           id == IF had = {} THEN {s} ELSE had
           u == call[h].user
           row == LinkedRow(users[u], s, id)
<1>1. UNCHANGED <<ucodes, session, post, history, calls, failures>>
  BY DEF Link
<1>2. CASE UNCHANGED users /\ End(h)
  BY <1>1, <1>2, GiveUpKeeps
<1>3. CASE Update(h, u, row)
  <2>1. /\ Knows(users, ucodes, Reached, Claimed, Received, call[h].todo, call[h])
        /\ call[h].todo # <<>> /\ call[h].todo = ToLink
    <3>1. call[h].todo # <<>> /\ Head(call[h].todo) = "link"
      BY DEF Link, At
    <3> QED
      BY <3>1, CallAt, Heads
  <2>2. s \in Subjects /\ id \in SUBSET Subjects
    <3>1. s \in Subjects
      BY <2>1 DEF Knows
    <3> QED
      BY <3>1 DEF OfProvider
  <2>3. Tail(call[h].todo) = ToStore
    BY <2>1, Tails
  <2>4. Knows(users, ucodes, Reached, Claimed, Received, ToStore, call[h])
    BY PlainKnows
  <2> HIDE DEF id, s, u
  <2>5. u \in Present => row \in User /\ row.email = users[u].email
    BY <2>2, RowsAreRows, LinkedRowIsRow DEF IInv, Present, Ids
  <2> HIDE DEF row
  <2> QED
    BY <1>1, <1>3, <2>1, <2>3, <2>4, <2>5, UpdateKeeps, HistoryStays
<1> QED
  BY <1>2, <1>3 DEF Link, LinkedRow

SwitchedRow(row, what) ==
    [row EXCEPT !.secret = what = "generate" \/ (what = "enable" /\ @),
                !.enabled = what = "enable" \/ (what = "generate" /\ @)]

LEMMA SwitchedRowIsRow ==
    ASSUME NEW row \in User, NEW what
    PROVE  /\ SwitchedRow(row, what) \in User /\ SwitchedRow(row, what).email = row.email
           /\ SwitchedRow(row, what).verified = row.verified
           /\ SwitchedRow(row, what).state = row.state
<1> DEFINE s == what = "generate" \/ (what = "enable" /\ row.secret)
           e == what = "enable" \/ (what = "generate" /\ row.enabled)
<1>1. s \in BOOLEAN /\ e \in BOOLEAN
  OBVIOUS
<1>2. SwitchedRow(row, what) = [row EXCEPT !.secret = s, !.enabled = e]
  BY DEF SwitchedRow, User
<1> HIDE DEF s, e
<1> QED
  BY <1>1, <1>2 DEF User

LEMMA SwitchKeeps ==
    ASSUME IInv, NEW h \in Handlers, SwitchTwoFactor(h)
    PROVE  IInv'
<1> DEFINE u == call[h].user
<1>1. PICK what \in {"generate", "enable", "disable"} :
        At(h, what) /\ Update(h, u, SwitchedRow(users[u], what))
  BY DEF SwitchTwoFactor, SwitchedRow
<1>2. call[h].todo # <<>> /\ Tail(call[h].todo) = <<>>
  <2>1. call[h].todo # <<>> /\ Head(call[h].todo) = what
    BY <1>1 DEF At
  <2>2. call[h].todo \in Todos
    BY <2>1, CallAt
  <2>3. call[h].todo \in {ToGenerate, ToEnable, ToDisable}
    BY <2>1, <2>2, Heads
  <2> QED
    BY <2>1, <2>3, Tails
<1>3. UNCHANGED <<ucodes, session, post, history, calls, failures>>
  BY DEF SwitchTwoFactor
<1> HIDE DEF u
<1> DEFINE row == SwitchedRow(users[u], what)
<1>4. u \in Present => row \in User /\ row.email = users[u].email
  BY RowsAreRows, SwitchedRowIsRow DEF IInv, Present, Ids
<1>5. Update(h, u, row)
  BY <1>1
<1> HIDE DEF row
<1> QED
  BY <1>2, <1>3, <1>4, <1>5, UpdateKeeps, HistoryStays

LEMMA AdminDeleteKeeps ==
    ASSUME IInv, NEW u \in Ids, AdminDelete(u)
    PROVE  IInv'
<1> DEFINE row == [users[u] EXCEPT !.state = "erased"]
<1>1. users[u] \in User /\ u \in Present
  BY RowsAreRows DEF IInv, Ids, AdminDelete
<1>2. row \in User /\ row.email = users[u].email
  BY <1>1 DEF User
<1>3. /\ users' = [users EXCEPT ![u] = row]
      /\ UNCHANGED <<ucodes, session, post, history, call, calls, failures>>
  BY DEF AdminDelete
<1> HIDE DEF row
<1>4. Grows
  BY <1>1, <1>2, <1>3, RowGrows, HistoryStays DEF post
<1>5. CallsKnow' /\ call' \in [Handlers -> Call]
  BY <1>3, <1>4, CallsStay DEF IInv, TypeOK
<1>6. row.email \in {users[u].email} \cup Nowhere
  BY <1>2
<1>7. UNCHANGED <<ucodes, session, post, credit, calls, failures>> /\ Spendings'
  BY <1>3, HistoryStays
<1> QED
  BY <1>1, <1>2, <1>3, <1>5, <1>6, <1>7, RowKeeps

LEMMA RowIsAdded ==
    ASSUME IInv, NEW row \in User, users' = Append(users, row)
    PROVE  /\ users' \in Seq(User) /\ Len(users') = Len(users) + 1 /\ Len(users) \in Nat
           /\ DOMAIN users' = 1..(Len(users) + 1) /\ DOMAIN users = 1..Len(users)
           /\ users'[Len(users) + 1] = row
           /\ \A w \in DOMAIN users : users'[w] = users[w]
           /\ \A w \in DOMAIN users' : w \in DOMAIN users \/ w = Len(users) + 1
<1>1. /\ users' \in Seq(User) /\ Len(users') = Len(users) + 1 /\ Len(users) \in Nat
      /\ DOMAIN users' = 1..(Len(users) + 1) /\ DOMAIN users = 1..Len(users)
      /\ users'[Len(users) + 1] = row
      /\ \A w \in DOMAIN users : users'[w] = users[w]
  BY RowsAreRows, AppendProperties, LenProperties DEF IInv
<1> QED
  BY <1>1

LEMMA NewRowGrows ==
    ASSUME IInv, NEW row \in User, users' = Append(users, row),
           UNCHANGED <<ucodes, inbox, vouched, typed>>
    PROVE  Grows
BY RowIsAdded DEF Grows, Reached, Claimed, Received

LEMMA NewRowKeeps ==
    ASSUME IInv, NEW row \in User, users' = Append(users, row), Len(users) < MaxAccounts,
           row.email \in Addresses => HolderOf(row.email) = {},
           call' \in [Handlers -> Call], CallsKnow',
           UNCHANGED <<ucodes, session, post, history, calls, failures>>
    PROVE  IInv'
<1> DEFINE n == Len(users) + 1
<1>1. /\ users' \in Seq(User) /\ Len(users') = n /\ Len(users) \in Nat
      /\ DOMAIN users \subseteq DOMAIN users'
      /\ users'[n] = row
      /\ \A w \in DOMAIN users : users'[w] = users[w]
      /\ \A w \in DOMAIN users' : w \in DOMAIN users \/ w = n
  BY RowIsAdded
<1>2. Len(users') <= MaxAccounts
  BY <1>1, BoundsAreNumbers
<1> HIDE DEF n
<1>3. TypeOK'
  BY <1>1, HistoryStays DEF IInv, TypeOK, Ids, post
<1>4. Unique'
  <2> SUFFICES ASSUME NEW v \in Present', NEW w \in Present', v # w,
                      users'[v].email = users'[w].email, users'[v].email \in Addresses
               PROVE  FALSE
    BY DEF Unique
  <2>1. \A x \in Present' : x = n \/ (x \in Present /\ x \in DOMAIN users)
    BY <1>1 DEF Present, Ids
  <2>2. ASSUME NEW x \in Present, users[x].email = row.email, row.email \in Addresses
        PROVE  FALSE
    BY <2>2 DEF HolderOf
  <2>3. CASE v = n
    BY <1>1, <2>1, <2>2, <2>3
  <2>4. CASE w = n
    BY <1>1, <2>1, <2>2, <2>4
  <2>5. CASE v # n /\ w # n
    BY <1>1, <2>1, <2>5 DEF IInv, Unique
  <2> QED
    BY <2>3, <2>4, <2>5
<1>5. CodesHaveAddresses' /\ JobsOpenProved' /\ MailsOpenProved'
  BY HistoryStays DEF IInv, CodesHaveAddresses, JobsOpenProved, MailsOpenProved, Reached, post
<1> QED
  BY <1>2, <1>3, <1>4, <1>5 DEF IInv

LEMMA CreateKeeps ==
    ASSUME IInv, NEW h \in Handlers, Create(h)
    PROVE  IInv'
<1> DEFINE c == call[h]
           row == NewUser(c.email)
           n == Len(users) + 1
<1>1. UNCHANGED <<ucodes, session, post, history, calls, failures>>
  BY DEF Create
<1>2. CASE End(h) /\ UNCHANGED users
  BY <1>1, <1>2, GiveUpKeeps
<1>3. CASE /\ HolderOf(c.email) = {} /\ Len(users) < MaxAccounts
           /\ users' = Append(users, row)
           /\ Proceed(h, [c EXCEPT !.user = n])
  <2>1. /\ Knows(users, ucodes, Reached, Claimed, Received, c.todo, c)
        /\ c \in Call /\ c.todo # <<>> /\ c.todo = ToCreate
    <3>1. c.todo # <<>> /\ Head(c.todo) = "create"
      BY DEF Create, At
    <3> QED
      BY <3>1, CallAt, Heads
  <2>2. c.email \in Addresses /\ c.under = None /\ c.code = 0
    BY <2>1 DEF Knows
  <2>3. row \in User /\ row.email = c.email
    BY <2>2 DEF NewUser, User, Email
  <2> HIDE DEF row
  <2>4. Grows
    BY <1>1, <1>3, <2>3, NewRowGrows, HistoryStays DEF post
  <2>5. n \in DOMAIN users' /\ users'[n] = row /\ n \in Nat
    BY <1>3, <2>3, RowIsAdded
  <2> DEFINE k == [c EXCEPT !.user = n]
  <2>6. k \in Call /\ k.user = n /\ k.email = c.email /\ k.code = 0 /\ k.under = None
    BY <2>1, <2>2, <2>5 DEF Call
  <2>7. Proceed(h, k)
    BY <1>3
  <2> HIDE DEF k, n
  <2>8. Knows(users', ucodes', Reached', Claimed', Received', ToCode, k)
    BY <2>3, <2>5, <2>6, Distinct DEF Knows, Todos
  <2>9. Tail(c.todo) = ToCode
    BY <2>1, Tails
  <2>10. CallsKnow' /\ call' \in [Handlers -> Call]
    BY <2>1, <2>4, <2>6, <2>7, <2>8, <2>9, ProceedKeeps
  <2> QED
    BY <1>1, <1>3, <2>3, <2>10, NewRowKeeps
<1> QED
  BY <1>2, <1>3 DEF Create

AdoptedRow(email, s) ==
    [NewUser(email) EXCEPT !.verified = email # None, !.password = FALSE, !.ids = {s}]

(* Apple's users without an address get one nobody has; the rest get the   *)
(* one the sign-in has asserted.                                           *)
LEMMA AdoptCases ==
    ASSUME IInv, NEW h \in Handlers, Adopt(h)
    PROVE  \/ UNCHANGED users /\ End(h)
           \/ \E row \in User :
                 /\ users' = Append(users, row) /\ Len(users) < MaxAccounts
                 /\ row.email \in Addresses \cup Nowhere /\ row.state # "erased"
                 /\ row.email \in Addresses => HolderOf(row.email) = {} /\ row.email \in Claimed
                 /\ Proceed(h, [call[h] EXCEPT !.user = Len(users) + 1])
<1> DEFINE c == call[h]
           email == IF c.email = None /\ Provider[c.subject] = "apple"
                    THEN Unreachable ELSE c.email
           row == AdoptedRow(email, c.subject)
<1>1. /\ Knows(users, ucodes, Reached, Claimed, Received, c.todo, c)
      /\ c \in Call /\ c.todo # <<>> /\ c.todo = ToAdopt
  <2>1. c.todo # <<>> /\ Head(c.todo) = "adopt"
    BY DEF Adopt, At
  <2> QED
    BY <2>1, CallAt, Heads
<1>2. c.email \in Claimed \cup {None} /\ c.subject \in Subjects
  BY <1>1 DEF Knows
<1>3. Claimed \subseteq Addresses
  BY DEF Claimed, Reached, IInv, TypeOK
<1>4. email \in Email /\ email \in Claimed \cup Nowhere
      /\ (email \in Addresses => email \in Claimed /\ email = c.email /\ c.email # None)
  BY <1>2, <1>3, SentinelsAreNoAddresses DEF Email, Nowhere
<1>5. CASE UNCHANGED users /\ End(h)
  BY <1>5
<1>6. CASE /\ ~(Linked(c.subject) # {} \/ (c.email # None /\ HolderOf(c.email) # {})
                 \/ Len(users) = MaxAccounts)
           /\ users' = Append(users, row)
           /\ Proceed(h, [call[h] EXCEPT !.user = Len(users) + 1])
  <2>1. Len(users) < MaxAccounts
    BY <1>6, RowsAreRows, BoundsAreNumbers DEF IInv
  <2> HIDE DEF email
  <2>2. row \in User /\ row.email = email /\ row.state = "live"
    BY <1>2, <1>4 DEF AdoptedRow, NewUser, User
  <2>3. row.email \in Addresses => HolderOf(row.email) = {} /\ row.email \in Claimed
    BY <1>4, <1>6, <2>2
  <2>4. row.email \in Addresses \cup Nowhere
    BY <1>3, <1>4, <2>2
  <2> HIDE DEF row
  <2> QED
    BY <1>6, <2>1, <2>2, <2>3, <2>4
<1> QED
  BY <1>5, <1>6 DEF Adopt, AdoptedRow

LEMMA AdoptKeeps ==
    ASSUME IInv, NEW h \in Handlers, Adopt(h)
    PROVE  IInv'
<1> DEFINE c == call[h]
           k == [c EXCEPT !.user = Len(users) + 1]
<1>1. UNCHANGED <<ucodes, session, post, history, calls, failures>>
  BY DEF Adopt
<1>2. CASE UNCHANGED users /\ End(h)
  BY <1>1, <1>2, GiveUpKeeps
<1>3. ASSUME NEW row \in User,
             users' = Append(users, row), Len(users) < MaxAccounts,
             row.email \in Addresses => HolderOf(row.email) = {},
             Proceed(h, k)
      PROVE  IInv'
  <2>1. c \in Call /\ c.todo # <<>> /\ c.todo = ToAdopt
    <3>1. c.todo # <<>> /\ Head(c.todo) = "adopt"
      BY DEF Adopt, At
    <3> QED
      BY <3>1, CallAt, Heads
  <2>2. Grows
    BY <1>1, <1>3, NewRowGrows, HistoryStays DEF post
  <2>3. k \in Call
    <3>1. Len(users) + 1 \in Nat
      BY RowsAreRows DEF IInv
    <3> QED
      BY <2>1, <3>1 DEF Call
  <2> HIDE DEF k
  <2>4. Knows(users', ucodes', Reached', Claimed', Received', ToStore, k)
    BY PlainKnows
  <2>5. Tail(c.todo) = ToStore
    BY <2>1, Tails
  <2>6. CallsKnow' /\ call' \in [Handlers -> Call]
    BY <1>3, <2>1, <2>2, <2>3, <2>4, <2>5, ProceedKeeps
  <2> QED
    BY <1>1, <1>3, <2>6, NewRowKeeps
<1> QED
  BY <1>2, <1>3, AdoptCases

---------------------------------------------------------------------------
(* The invariant *)

LEMMA StepKeeps ==
    ASSUME IInv, NEW h \in Handlers, Step(h)
    PROVE  IInv'
<1>1. CASE Create(h) \/ CreateToken(h) \/ Adopt(h)
  BY <1>1, CreateKeeps, CreateTokenKeeps, AdoptKeeps
<1>2. CASE SendOtpCodeToEmail(h) \/ SendSupportRequest(h)
  BY <1>2, SendKeeps
<1>3. CASE ValidateToken(h) \/ Compare(h) \/ VerifyTwoFactor(h) \/ Match(h)
  BY <1>3, ValidateTokenKeeps, CompareKeeps, MatchKeeps
<1>4. CASE Verify(h) \/ Rekey(h) \/ Move(h)
  BY <1>4, VerifyKeeps, RekeyKeeps, MoveKeeps
<1>5. CASE Spend(h) \/ Bury(h) \/ Link(h)
  BY <1>5, SpendKeeps, BuryKeeps, LinkKeeps
<1>6. CASE StoreToken(h) \/ DropToken(h) \/ SwitchTwoFactor(h)
  BY <1>6, TokenKeeps, SwitchKeeps
<1> QED
  BY <1>1, <1>2, <1>3, <1>4, <1>5, <1>6 DEF Step

LEMMA StutterKeeps ==
    ASSUME IInv, UNCHANGED vars
    PROVE  IInv'
<1>1. CallsKnow' /\ call' \in [Handlers -> Call]
  BY GrowsWithVouched, CallsStay DEF vars, IInv, TypeOK
<1> QED
  BY <1>1, CallStepKeeps DEF vars, Spendings, IInv, TypeOK

LEMMA NextKeeps == IInv /\ [Next]_vars => IInv'
<1> SUFFICES ASSUME IInv, [Next]_vars
             PROVE  IInv'
  OBVIOUS
<1>1. ASSUME NEW h \in Handlers, Request(h) \/ Step(h) \/ Fail(h)
      PROVE  IInv'
  BY <1>1, RequestKeeps, StepKeeps, FailKeeps
<1>2. ASSUME NEW job \in mailQueue, Work(job) \/ WorkFails(job)
      PROVE  IInv'
  BY <1>2, DeliverKeeps
<1>3. ASSUME NEW c \in DOMAIN ucodes, Expire(c)
      PROVE  IInv'
  BY <1>3, ExpireKeeps
<1>4. ASSUME NEW u \in Ids, AdminDelete(u)
      PROVE  IInv'
  BY <1>4, AdminDeleteKeeps
<1>5. CASE UNCHANGED vars
  BY <1>5, StutterKeeps
<1> QED
  BY <1>1, <1>2, <1>3, <1>4, <1>5 DEF Next

LEMMA SpecInv == Spec => []IInv
BY InitInv, NextKeeps, PTL DEF Spec

(* No sequence of calls, steps, failures and mails leads out of the types. *)
THEOREM TypeCorrect == Spec => []TypeOK
<1>1. IInv => TypeOK
  BY DEF IInv
<1> QED
  BY <1>1, SpecInv, PTL

(* A mail whose code createToken stored under another address than it was  *)
(* sent to opens only an address that had answered already.                *)
THEOREM MisaddressedCodesAreHarmless == Spec => []MisaddressedCodesOpenProvedAddresses
<1>1. IInv => MisaddressedCodesOpenProvedAddresses
  BY DEF IInv, MailsOpenProved, CodesHaveAddresses, Nowhere,
         MisaddressedCodesOpenProvedAddresses
<1> QED
  BY <1>1, SpecInv, PTL

---------------------------------------------------------------------------
(* Used codes *)

(* A request that has used its code has nothing left but to delete it.     *)
UsedAreCodes == \A m \in used : m[2] \in DOMAIN ucodes

(* The codes there are keep their addresses and never become valid again.  *)
CodesOnlyFade ==
    \A c \in DOMAIN ucodes :
        /\ c \in DOMAIN ucodes' /\ ucodes'[c].email = ucodes[c].email
        /\ ucodes'[c].valid => ucodes[c].valid

(* A code that validates for the address after the step.                   *)
Opens(c, a) == ucodes'[c].valid /\ ucodes'[c].email = a

(* Only h goes on; if it was about to delete its code, the code is deleted *)
(* now or the request is cut off.                                          *)
LEMMA UsedStay ==
    ASSUME UsedAreCodes, UsedCodesDie, CodesOnlyFade, used' = used, cut \subseteq cut',
           NEW h, \A g \in Handlers : g # h => call'[g] = call[g],
           At(h, "spend") => \/ <<call[h].email, call[h].code>> \in cut'
                             \/ ~Opens(call[h].code, call[h].email)
    PROVE  UsedAreCodes' /\ UsedCodesDie'
<1>1. UsedAreCodes'
  BY DEF UsedAreCodes, CodesOnlyFade
<1>2. ASSUME NEW m \in used, Validates(m[2], m[1])'
      PROVE  \/ m \in cut'
             \/ \E g \in Handlers : /\ At(g, "spend")'
                                   /\ m = <<call'[g].email, call'[g].code>>
  <2>1. m[2] \in DOMAIN ucodes
    BY DEF UsedAreCodes
  <2>2. Validates(m[2], m[1])
    BY <1>2, <2>1 DEF CodesOnlyFade, Validates
  <2>3. CASE m \in cut
    BY <2>3
  <2>4. ASSUME NEW g \in Handlers, At(g, "spend"), m = <<call[g].email, call[g].code>>
        PROVE  \/ m \in cut'
               \/ \E f \in Handlers : /\ At(f, "spend")'
                                     /\ m = <<call'[f].email, call'[f].code>>
    <3>1. CASE g = h
      <4>1. m[1] = call[h].email /\ m[2] = call[h].code
        BY <2>4, <3>1
      <4>2. Opens(call[h].code, call[h].email)
        BY <1>2, <4>1 DEF Validates, Opens
      <4> QED
        BY <2>4, <3>1, <4>2
    <3>2. CASE g # h
      <4>1. call'[g] = call[g]
        BY <3>2
      <4>2. At(g, "spend")'
        BY <2>4, <4>1 DEF At
      <4> QED
        BY <2>4, <4>1, <4>2
    <3> QED
      BY <3>1, <3>2
  <2> QED
    BY <2>2, <2>3, <2>4 DEF UsedCodesDie
<1> QED
  BY <1>1, <1>2 DEF UsedCodesDie

LEMMA RequestAccepts ==
    ASSUME NEW h, Request(h)
    PROVE  \E kind, request : Accept(h, kind, request)
<1>1. CASE EntryRequest(h) \/ CodeRequest(h)
  BY <1>1 DEF EntryRequest, Register, Login, CodeRequest, AskForCode, VerifyEmail,
              ResetPassword
<1>2. CASE ProfileRequest(h)
  BY <1>2 DEF ProfileRequest, ChangePassword, RequestEmailChange, ChangeEmail
<1>3. CASE FactorRequest(h) \/ AccountRequest(h)
  BY <1>3 DEF FactorRequest, TwoFactor, AccountRequest, DeleteAccount, HelpSupport
<1>4. CASE ProviderRequest(h) \/ AdminRequest(h) \/ \E u \in Present : Logout(h, u)
  BY <1>4 DEF ProviderRequest, SignIn, AdminRequest, AdminSetEmail, Logout
<1> QED
  BY <1>1, <1>2, <1>3, <1>4 DEF Request

LEMMA OthersWait ==
    ASSUME IInv, NEW h \in Handlers, Request(h) \/ Step(h) \/ Fail(h)
    PROVE  \A g \in Handlers : g # h => call'[g] = call[g]
<1>1. call \in [Handlers -> Call]
  BY DEF IInv, TypeOK
<1>2. ASSUME \E k : call' = [call EXCEPT ![h] = k]
      PROVE  \A g \in Handlers : g # h => call'[g] = call[g]
  BY <1>1, <1>2
<1>3. End(h) => \E k : call' = [call EXCEPT ![h] = k]
  BY DEF End
<1>4. \A known : Proceed(h, known) => \E k : call' = [call EXCEPT ![h] = k]
  BY DEF Proceed
<1>5. \A u, row : Update(h, u, row) => \E k : call' = [call EXCEPT ![h] = k]
  BY <1>3, <1>4 DEF Update
<1>6. CASE Request(h)
  BY <1>2, <1>6, RequestAccepts DEF Accept
<1>7. CASE Fail(h)
  BY <1>2, <1>3, <1>7 DEF Fail
<1>8. CASE Step(h)
  <2>1. CASE Create(h) \/ CreateToken(h) \/ SendOtpCodeToEmail(h) \/ SendSupportRequest(h)
    BY <1>2, <1>3, <1>4, <2>1
    DEF Create, CreateToken, SendOtpCodeToEmail, SendSupportRequest, Enqueue
  <2>2. CASE ValidateToken(h) \/ Compare(h) \/ VerifyTwoFactor(h) \/ Spend(h)
    BY <1>2, <1>3, <1>4, <2>2 DEF ValidateToken, Compare, VerifyTwoFactor, Spend
  <2>3. CASE Verify(h) \/ Rekey(h) \/ Move(h) \/ Bury(h)
    BY <1>2, <1>3, <1>5, <2>3 DEF Verify, Rekey, Move, ChangeBy, Bury
  <2>4. CASE Link(h) \/ SwitchTwoFactor(h)
    BY <1>2, <1>3, <1>5, <2>4 DEF Link, SwitchTwoFactor
  <2>5. CASE Adopt(h) \/ StoreToken(h) \/ DropToken(h)
    BY <1>2, <1>3, <1>4, <2>5 DEF Adopt, StoreToken, DropToken
  <2>6. CASE Match(h)
    BY <1>1, <2>6 DEF Match
  <2> QED
    BY <1>8, <2>1, <2>2, <2>3, <2>4, <2>5, <2>6 DEF Step
<1> QED
  BY <1>6, <1>7, <1>8

(* Nothing that was used is touched by what neither uses a code nor        *)
(* deletes one.                                                            *)
LEMMA QuietKeepsUsed ==
    ASSUME IInv, UsedAreCodes, UsedCodesDie, NEW h \in Handlers,
           Request(h) \/ (Step(h) /\ ~Spend(h) /\ ~Rekey(h) /\ ~Move(h))
    PROVE  UsedAreCodes' /\ UsedCodesDie'
<1>1. used' = used /\ cut' = cut /\ (UNCHANGED ucodes \/ CreateToken(h)) /\ ~At(h, "spend")
  <2>1. CASE Request(h)
    BY <2>1, RequestAccepts DEF Accept, tables, spending, At
  <2>2. CASE Create(h) \/ CreateToken(h) \/ SendOtpCodeToEmail(h) \/ SendSupportRequest(h)
    BY <2>2, HistoryStays
    DEF Create, CreateToken, SendOtpCodeToEmail, SendSupportRequest, Enqueue, tables, At
  <2>3. CASE ValidateToken(h) \/ Compare(h) \/ VerifyTwoFactor(h) \/ Match(h)
    BY <2>3, HistoryStays DEF ValidateToken, Compare, VerifyTwoFactor, Match, tables, At
  <2>4. CASE Verify(h) \/ Bury(h) \/ Link(h) \/ SwitchTwoFactor(h)
    BY <2>4, HistoryStays DEF Verify, Bury, Link, SwitchTwoFactor, At
  <2>5. CASE Adopt(h) \/ StoreToken(h) \/ DropToken(h)
    BY <2>5, HistoryStays DEF Adopt, StoreToken, DropToken, At
  <2> QED
    BY <2>1, <2>2, <2>3, <2>4, <2>5 DEF Step
<1>2. CodesOnlyFade
  <2>1. CASE UNCHANGED ucodes
    BY <2>1 DEF CodesOnlyFade
  <2>2. CASE CreateToken(h) /\ ~UNCHANGED ucodes
    <3>1. PICK row : ucodes' = Append(ucodes, row)
      BY <2>2 DEF CreateToken
    <3>2. /\ DOMAIN ucodes = 1..Len(ucodes) /\ Len(ucodes) \in Nat
          /\ \A c \in DOMAIN ucodes : c \in DOMAIN ucodes' /\ ucodes'[c] = ucodes[c]
      BY <3>1, RowsAreRows DEF IInv
    <3> QED
      BY <3>2 DEF CodesOnlyFade
  <2> QED
    BY <1>1, <2>1, <2>2
<1>3. \A g \in Handlers : g # h => call'[g] = call[g]
  BY OthersWait
<1> QED
  BY <1>1, <1>2, <1>3, UsedStay

(* Password or address changed: the code is the one in hand, and deleting  *)
(* it is what is left to do.                                               *)
LEMMA ChangeKeepsUsed ==
    ASSUME IInv, UsedAreCodes, UsedCodesDie, NEW h \in Handlers, Rekey(h) \/ Move(h)
    PROVE  UsedAreCodes' /\ UsedCodesDie'
<1> DEFINE m0 == <<call[h].email, call[h].code>>
<1>1. UNCHANGED ucodes /\ cut' = cut /\ ~At(h, "spend")
  BY DEF Rekey, Move, At
<1>2. CodesOnlyFade
  BY <1>1 DEF CodesOnlyFade
<1>3. \A g \in Handlers : g # h => call'[g] = call[g]
  BY OthersWait DEF Step
<1>4. CASE used' = used
  BY <1>1, <1>2, <1>3, <1>4, UsedStay
<1>5. CASE used' # used
  <2>1. /\ call[h].code # 0 /\ used' = used \cup {m0}
        /\ Proceed(h, call[h])
    BY <1>5 DEF Rekey, Move, ChangeBy, Update
  <2>2. /\ Knows(users, ucodes, Reached, Claimed, Received, call[h].todo, call[h])
        /\ call[h] \in Call /\ call[h].todo # <<>>
        /\ call[h].todo \in {ToRekeySpend, ToRekey, ToMoveSpend, ToMove}
    <3>1. call[h].todo # <<>> /\ (Head(call[h].todo) = "rekey" \/ Head(call[h].todo) = "move")
      BY DEF Rekey, Move, At
    <3> QED
      BY <3>1, CallAt, Heads
  <2>3. call[h].todo \in {ToRekeySpend, ToMoveSpend} /\ call[h].code \in DOMAIN ucodes
    BY <2>1, <2>2 DEF Knows
  <2>4. Tail(call[h].todo) = ToSpend /\ Len(call[h].todo) = 2
    BY <2>3, Tails
  <2>5. call' = [call EXCEPT ![h] = [call[h] EXCEPT !.todo = ToSpend]]
    <3>1. Len(call[h].todo) # 1
      BY <2>4
    <3> QED
      BY <2>1, <2>4, <3>1 DEF Proceed
  <2>6. /\ call'[h].todo = ToSpend
        /\ m0 = <<call'[h].email, call'[h].code>>
    <3>1. call'[h] = [call[h] EXCEPT !.todo = ToSpend]
      BY <2>5 DEF IInv, TypeOK
    <3>2. ToSpend \in Seq(Steps)
      BY TodosAreSteps DEF Todos
    <3> QED
      BY <2>2, <3>1, <3>2, CallFields
  <2>7. At(h, "spend")'
    BY <2>6, Tails DEF At
  <2>8. UsedAreCodes'
    BY <1>1, <2>1, <2>3 DEF UsedAreCodes
  <2>9. ASSUME NEW m \in used, Validates(m[2], m[1])'
        PROVE  \/ m \in cut'
               \/ \E g \in Handlers : /\ At(g, "spend")'
                                     /\ m = <<call'[g].email, call'[g].code>>
    <3>1. Validates(m[2], m[1])
      BY <1>1, <2>9 DEF Validates
    <3>2. ASSUME NEW g \in Handlers, At(g, "spend")
          PROVE  At(g, "spend")' /\ call'[g] = call[g]
      BY <1>1, <1>3, <3>2 DEF At
    <3> QED
      BY <1>1, <3>1, <3>2 DEF UsedCodesDie
  <2> HIDE DEF m0
  <2>10. UsedCodesDie'
    BY <2>1, <2>6, <2>7, <2>9 DEF UsedCodesDie
  <2> QED
    BY <2>8, <2>10
<1> QED
  BY <1>4, <1>5

(* The code is deleted under the address it was used for, so it opens that *)
(* address no more; whether it is of another address does not matter.      *)
LEMMA SpendKeepsUsed ==
    ASSUME IInv, UsedAreCodes, UsedCodesDie, NEW h \in Handlers, Spend(h)
    PROVE  UsedAreCodes' /\ UsedCodesDie'
<1> DEFINE a == call[h].email
           c == call[h].code
           b == ucodes[c].valid /\ ucodes[c].email # a
<1>1. c \in DOMAIN ucodes
  <2>1. call[h].todo # <<>> /\ Head(call[h].todo) = "spend"
    BY DEF Spend, At
  <2>2. call[h].todo = ToSpend
    BY <2>1, CallAt, Heads
  <2> QED
    BY <2>1, <2>2, CallAt DEF Knows
<1>2. UNCHANGED <<used, cut>> /\ ucodes' = [ucodes EXCEPT ![c].valid = b]
  BY <1>1, HistoryStays DEF Spend
<1>3. b \in BOOLEAN /\ (b => ucodes[c].valid)
  BY <1>1, RowsAreRows DEF IInv, Ucode
<1> HIDE DEF b
<1>5. /\ DOMAIN ucodes' = DOMAIN ucodes /\ ucodes'[c].valid = b
      /\ \A k \in DOMAIN ucodes : ucodes'[k].email = ucodes[k].email
                                  /\ (ucodes'[k].valid => ucodes[k].valid)
  BY <1>1, <1>2, <1>3, CodesFade
<1>6. CodesOnlyFade
  BY <1>5 DEF CodesOnlyFade
<1>7. ~Opens(c, a)
  <2>1. b = (ucodes[c].valid /\ ucodes[c].email # a)
    BY DEF b
  <2>2. ucodes'[c].email = a => ~ucodes'[c].valid
    BY <1>1, <1>5, <2>1
  <2> QED
    BY <2>2 DEF Opens
<1>8. \A g \in Handlers : g # h => call'[g] = call[g]
  BY OthersWait DEF Step
<1> QED
  BY <1>2, <1>6, <1>7, <1>8, UsedStay

LEMMA FailKeepsUsed ==
    ASSUME IInv, UsedAreCodes, UsedCodesDie, NEW h \in Handlers, Fail(h)
    PROVE  UsedAreCodes' /\ UsedCodesDie'
<1>1. UNCHANGED <<ucodes, used>> /\ cut \subseteq cut'
      /\ (At(h, "spend") => <<call[h].email, call[h].code>> \in cut')
  BY DEF Fail, tables
<1>2. CodesOnlyFade
  BY <1>1 DEF CodesOnlyFade
<1>3. \A g \in Handlers : g # h => call'[g] = call[g]
  BY OthersWait
<1> QED
  BY <1>1, <1>2, <1>3, UsedStay

(* No call goes on: codes expire, mails arrive, an account is erased.      *)
LEMMA RestKeepsUsed ==
    ASSUME IInv, UsedAreCodes, UsedCodesDie, UNCHANGED <<used, cut, call>>, CodesOnlyFade
    PROVE  UsedAreCodes' /\ UsedCodesDie'
<1>1. UsedAreCodes'
  BY DEF UsedAreCodes, CodesOnlyFade
<1>2. \A m \in used : Validates(m[2], m[1])' => Validates(m[2], m[1])
  BY DEF UsedAreCodes, CodesOnlyFade, Validates
<1>3. \A g \in Handlers : At(g, "spend")' <=> At(g, "spend")
  BY DEF At
<1> QED
  BY <1>1, <1>2, <1>3 DEF UsedCodesDie

LEMMA NextKeepsUsed ==
    ASSUME IInv, UsedAreCodes, UsedCodesDie, [Next]_vars
    PROVE  UsedAreCodes' /\ UsedCodesDie'
<1>1. ASSUME NEW h \in Handlers, Request(h) \/ Step(h) \/ Fail(h)
      PROVE  UsedAreCodes' /\ UsedCodesDie'
  BY <1>1, QuietKeepsUsed, ChangeKeepsUsed, SpendKeepsUsed, FailKeepsUsed
<1>2. ASSUME NEW job \in mailQueue, Work(job) \/ WorkFails(job)
      PROVE  UsedAreCodes' /\ UsedCodesDie'
  <2>1. UNCHANGED <<used, cut, call, ucodes>>
    BY <1>2, HistoryStays DEF Work, WorkFails, tables
  <2>2. CodesOnlyFade
    BY <2>1 DEF CodesOnlyFade
  <2> QED
    BY <2>1, <2>2, RestKeepsUsed
<1>3. ASSUME NEW c \in DOMAIN ucodes, Expire(c)
      PROVE  UsedAreCodes' /\ UsedCodesDie'
  <2>1. UNCHANGED <<used, cut, call>>
    BY <1>3, HistoryStays DEF Expire
  <2>2. /\ DOMAIN ucodes' = DOMAIN ucodes
        /\ \A k \in DOMAIN ucodes : ucodes'[k].email = ucodes[k].email
                                    /\ (ucodes'[k].valid => ucodes[k].valid)
    BY <1>3, CodesFade DEF Expire
  <2>3. CodesOnlyFade
    BY <2>2 DEF CodesOnlyFade
  <2> QED
    BY <2>1, <2>3, RestKeepsUsed
<1>4. CASE (\E u \in Ids : AdminDelete(u)) \/ UNCHANGED vars
  <2>1. UNCHANGED <<used, cut, call, ucodes>>
    BY <1>4, HistoryStays DEF AdminDelete, vars
  <2>2. CodesOnlyFade
    BY <2>1 DEF CodesOnlyFade
  <2> QED
    BY <2>1, <2>2, RestKeepsUsed
<1> QED
  BY <1>1, <1>2, <1>3, <1>4 DEF Next

(* resetPassword and changeEmail change the account first and delete the   *)
(* code afterwards.  However calls overlap, a code that has changed a      *)
(* password or an address validates for that address only while such a     *)
(* request still has it to delete, or when one was cut off in between.     *)
THEOREM UsedCodesAreDeleted == Spec => []UsedCodesDie
<1>1. Init => UsedAreCodes /\ UsedCodesDie
  BY DEF Init, UsedAreCodes, UsedCodesDie
<1>2. IInv /\ (UsedAreCodes /\ UsedCodesDie) /\ [Next]_vars => (UsedAreCodes /\ UsedCodesDie)'
  BY NextKeepsUsed
<1> QED
  BY <1>1, <1>2, SpecInv, PTL DEF Spec

---------------------------------------------------------------------------
(* The refinement: what a step does to the addresses.  Only the state and  *)
(* the address of a row and whether it is verified are seen of it.         *)

Holder == [a \in Addresses |-> HolderOf(a)]
Confirmed == {users[u].email : u \in {v \in Present : users[v].verified}} \cap Addresses

LEMMA Seen ==
    /\ \A a \in Addresses : Holder[a] = {u \in Present : users[u].email = a}
    /\ \A a \in Addresses :
          a \in Confirmed <=> \E u \in Present : users[u].verified /\ users[u].email = a
    /\ Confirmed \subseteq Addresses
BY DEF Holder, HolderOf, Confirmed

LEMMA SeenNext ==
    /\ \A a \in Addresses : Holder'[a] = {u \in Present' : users'[u].email = a}
    /\ \A a \in Addresses :
          a \in Confirmed' <=> \E u \in Present' : users'[u].verified /\ users'[u].email = a
    /\ Confirmed' \subseteq Addresses
BY DEF Holder, HolderOf, Confirmed

LEMMA ViewStays ==
    ASSUME UNCHANGED users
    PROVE  Holder' = Holder /\ Confirmed' = Confirmed
BY DEF Holder, HolderOf, Confirmed, Present, Ids

LEMMA InitRefines == Init => ID!Init
<1> SUFFICES ASSUME Init
             PROVE  ID!Init
  OBVIOUS
<1>1. IInv
  BY InitInv
<1>2. /\ Len(Settled) \in Nat /\ \A u \in 1..Len(Settled) : ~NewUser(Settled[u]).verified
      /\ users = [u \in 1..Len(Settled) |-> NewUser(Settled[u])]
  <2>1. Len(Settled) \in Nat
    BY SettledAreAddresses, LenProperties
  <2> QED
    BY <2>1 DEF Init, NewUser
<1>3. \A u \in Present : ~users[u].verified
  BY <1>2 DEF Present, Ids
<1>4. Confirmed = {}
  BY <1>3 DEF Confirmed
<1>5. Reached = {} /\ typed = {}
  BY DEF Init, Reached
<1>6. \A a, b \in Addresses, u, v \in 1..MaxAccounts :
          u \in HolderOf(a) /\ v \in HolderOf(b) => (u = v <=> a = b)
  BY <1>1 DEF IInv, Unique, HolderOf
<1> QED
  BY <1>4, <1>5, <1>6 DEF ID!Init, Confirmed

(* One row is written. *)
Writes(u, row) ==
    /\ row.state # "erased"
    /\ Ids' = Ids /\ u \in Ids
    /\ \A w \in Ids : users'[w] = IF w = u THEN row ELSE users[w]

LEMMA UpdateWrites ==
    ASSUME IInv, NEW u \in Present, NEW row \in User, users' = [users EXCEPT ![u] = row],
           row.state # "erased"
    PROVE  Writes(u, row)
BY RowChanges DEF Writes, Ids

LEMMA RowHolder ==
    ASSUME IInv, NEW u \in Present, NEW row \in User, Writes(u, row), NEW a \in Addresses
    PROVE  \A w : w \in Holder'[a] <=> (row.email = a /\ w = u) \/ (w # u /\ w \in Holder[a])
<1>1. /\ Ids' = Ids /\ u \in Ids
      /\ \A w \in Ids : users'[w] = IF w = u THEN row ELSE users[w]
  BY DEF Writes
<1>2. Present' = Present
  BY <1>1 DEF Writes, Present
<1>3. Present \subseteq Ids
  BY DEF Present
<1>4. Holder[a] = {w \in Present : users[w].email = a}
  BY Seen
<1>5. Holder'[a] = {w \in Present : users'[w].email = a}
  BY <1>2, SeenNext
<1> QED
  BY <1>1, <1>3, <1>4, <1>5

LEMMA RowConfirmed ==
    ASSUME IInv, NEW u \in Present, NEW row \in User, Writes(u, row), NEW a \in Addresses
    PROVE  a \in Confirmed' <=> \/ row.verified /\ row.email = a
                                \/ \E v \in Present : /\ v # u /\ users[v].verified
                                                      /\ users[v].email = a
<1>1. /\ Ids' = Ids /\ u \in Ids
      /\ \A w \in Ids : users'[w] = IF w = u THEN row ELSE users[w]
  BY DEF Writes
<1>2. Present' = Present /\ Present \subseteq Ids
  BY <1>1 DEF Writes, Present
<1>3. a \in Confirmed' <=> \E v \in Present : users'[v].verified /\ users'[v].email = a
  BY <1>2, SeenNext
<1> QED
  BY <1>1, <1>2, <1>3

LEMMA OwnAddress ==
    ASSUME IInv, NEW u \in Present
    PROVE  /\ users[u].email \in Addresses =>
                /\ Holder[users[u].email] = {u}
                /\ users[u].email \in Confirmed <=> users[u].verified
           /\ \A a \in Addresses : u \in Holder[a] <=> users[u].email = a
           /\ \A v \in Present : v # u /\ users[v].email = users[u].email
                                    => users[u].email \notin Addresses
           /\ u \in 1..MaxAccounts
<1>1. \A v \in Present : v # u /\ users[v].email = users[u].email
                                    => users[u].email \notin Addresses
  BY DEF IInv, Unique
<1>2. users[u].email \in Addresses =>
                /\ Holder[users[u].email] = {u}
                /\ users[u].email \in Confirmed <=> users[u].verified
  BY <1>1, Seen
<1>3. \A a \in Addresses : u \in Holder[a] <=> users[u].email = a
  BY Seen
<1>4. u \in 1..MaxAccounts
  BY RowsAreRows, BoundsAreNumbers DEF IInv, Present, Ids
<1> QED
  BY <1>1, <1>2, <1>3, <1>4

LEMMA KeptRow ==
    ASSUME IInv, NEW u \in Present, NEW row \in User, Writes(u, row), row.email = users[u].email
    PROVE  /\ Holder' = Holder
           /\ row.verified = users[u].verified => Confirmed' = Confirmed
           /\ row.verified /\ row.email \notin Addresses => Confirmed' = Confirmed
           /\ row.verified /\ row.email \in Addresses => Confirmed' = Confirmed \cup {row.email}
<1>1. Holder' = Holder
  <2>1. ASSUME NEW a \in Addresses
        PROVE  Holder'[a] = Holder[a]
    <3>1. \A w : w \in Holder'[a] <=> (row.email = a /\ w = u) \/ (w # u /\ w \in Holder[a])
      BY RowHolder
    <3>2. u \in Holder[a] <=> users[u].email = a
      BY OwnAddress
    <3> QED
      BY <3>1, <3>2
  <2> QED
    BY <2>1 DEF Holder
<1>2. \A a \in Addresses :
        a \in Confirmed' <=> \/ row.verified /\ row.email = a
                             \/ \E v \in Present : /\ v # u /\ users[v].verified
                                                   /\ users[v].email = a
  BY RowConfirmed
<1>3. \A a \in Addresses :
        a \in Confirmed <=> \/ users[u].verified /\ users[u].email = a
                            \/ \E v \in Present : /\ v # u /\ users[v].verified
                                                  /\ users[v].email = a
  BY Seen
<1>4. users[u].verified \in BOOLEAN /\ row.verified \in BOOLEAN
  BY PresentRows DEF User
<1>5. row.verified = users[u].verified => Confirmed' = Confirmed
  BY <1>2, <1>3, Seen, SeenNext
<1>6. ASSUME row.verified
      PROVE  /\ row.email \notin Addresses => Confirmed' = Confirmed
             /\ row.email \in Addresses => Confirmed' = Confirmed \cup {row.email}
  <2>1. \A a \in Addresses : a \in Confirmed' <=> a \in Confirmed \/ a = row.email
    BY <1>2, <1>3, <1>6
  <2> QED
    BY <2>1, Seen, SeenNext
<1> QED
  BY <1>1, <1>5, <1>6

(* The account moves to an address it alone holds, if anybody. *)
LEMMA MovedRow ==
    ASSUME IInv, NEW u \in Present, NEW row \in User, Writes(u, row), row.email # users[u].email,
           row.email \in Addresses, HolderOf(row.email) \subseteq {u},
           row.verified = users[u].verified, row.email \in Reached, Reached' = Reached, typed' = typed
    PROVE  ID!Next
<1> DEFINE e == users[u].email
           b == row.email
<1>1. Holder[b] = {}
  <2>1. u \notin HolderOf(b)
    BY DEF HolderOf
  <2> QED
    BY <2>1, Seen DEF HolderOf
<1>2. ASSUME NEW a \in Addresses
      PROVE  Holder'[a] = IF a = b THEN {u} ELSE Holder[a] \ {u}
  <2>1. \A w : w \in Holder'[a] <=> (row.email = a /\ w = u) \/ (w # u /\ w \in Holder[a])
    BY RowHolder
  <2> QED
    BY <1>1, <2>1
<1>3. \A a \in Addresses :
        a \in Confirmed' <=> \/ row.verified /\ b = a
                             \/ \E v \in Present : /\ v # u /\ users[v].verified
                                                   /\ users[v].email = a
  BY RowConfirmed
<1>4. \A a \in Addresses :
        a \in Confirmed <=> \/ users[u].verified /\ e = a
                            \/ \E v \in Present : /\ v # u /\ users[v].verified
                                                  /\ users[v].email = a
  BY Seen
<1>5. \A v \in Present : users[v].email # b
  BY <1>1, Seen
<1>6. CASE e \in Addresses
  <2>1. Holder[e] = {u} /\ (e \in Confirmed <=> users[u].verified)
    BY <1>6, OwnAddress
  <2>2. \A a \in Addresses : a # e => u \notin Holder[a]
    BY OwnAddress
  <2>3. Holder' = [Holder EXCEPT ![e] = {}, ![b] = {u}]
    <3>1. ASSUME NEW a \in Addresses
          PROVE  Holder'[a] = IF a = b THEN {u} ELSE IF a = e THEN {} ELSE Holder[a]
      <4>1. Holder[a] \ {u} = IF a = e THEN {} ELSE Holder[a]
        BY <2>1, <2>2
      <4> QED
        BY <1>2, <4>1
    <3> QED
      BY <3>1 DEF Holder
  <2>4. \A v \in Present : v # u => users[v].email # e
    BY <1>6, OwnAddress
  <2>5. \A a \in Addresses :
          a \in Confirmed' <=> a \in (Confirmed \ {e}) \cup (IF e \in Confirmed THEN {b} ELSE {})
    BY <1>3, <1>4, <1>5, <1>6, <2>1, <2>4
  <2>6. Confirmed' = (Confirmed \ {e}) \cup (IF e \in Confirmed THEN {b} ELSE {})
    BY <2>5, Seen, SeenNext
  <2>7. ID!Move(u, e, b)
    BY <1>1, <2>1, <2>3, <2>6 DEF ID!Move, Holder, Confirmed
  <2>8. u \in 1..MaxAccounts /\ b \in Addresses \ {e}
    BY OwnAddress
  <2> QED
    BY <1>6, <2>7, <2>8 DEF ID!Next
<1>7. CASE e \notin Addresses
  <2>1. \A a \in Addresses : u \notin Holder[a]
    BY <1>7, OwnAddress
  <2>2. Holder' = [Holder EXCEPT ![b] = {u}]
    <3>1. ASSUME NEW a \in Addresses
          PROVE  Holder'[a] = IF a = b THEN {u} ELSE Holder[a]
      <4>1. Holder[a] \ {u} = Holder[a]
        BY <2>1
      <4> QED
        BY <1>2, <4>1
    <3> QED
      BY <3>1 DEF Holder
  <2>3. \A a \in Addresses :
          a \in Confirmed' <=> a \in Confirmed \/ (row.verified /\ a = b)
    BY <1>3, <1>4, <1>7
  <2>4. Confirmed' \in {Confirmed, Confirmed \cup ({b} \cap Claimed)}
    <3>1. {b} \cap Claimed = {b}
      BY DEF Claimed
    <3>2. CASE row.verified
      <4>1. Confirmed' = Confirmed \cup {b}
        BY <2>3, <3>2, Seen, SeenNext
      <4> QED
        BY <3>1, <4>1
    <3>3. CASE ~row.verified
      <4>1. Confirmed' = Confirmed
        BY <2>3, <3>3, Seen, SeenNext
      <4> QED
        BY <4>1
    <3> QED
      BY <3>2, <3>3
  <2>5. ID!Claim(u, b)
    BY <1>1, <2>1, <2>2, <2>4 DEF ID!Claim, Holder, Confirmed, Claimed
  <2>6. u \in 1..MaxAccounts
    BY OwnAddress
  <2> QED
    BY <2>5, <2>6 DEF ID!Next
<1> QED
  BY <1>6, <1>7

(* The account gives its address up: it gets one nobody has, or is erased. *)
LEMMA ReleasedAddress ==
    ASSUME NEW e \in Addresses, Reached' = Reached, typed' = typed,
           \A a \in Addresses : Holder'[a] = IF a = e THEN {} ELSE Holder[a],
           \A a \in Addresses : a \in Confirmed' <=> a \in Confirmed /\ a # e
    PROVE  ID!Next
<1>1. Holder' = [Holder EXCEPT ![e] = {}]
  BY DEF Holder
<1>2. Confirmed' = Confirmed \ {e}
  BY Seen, SeenNext
<1>3. ID!Release(e)
  BY <1>1, <1>2 DEF ID!Release, Holder, Confirmed
<1> QED
  BY <1>3 DEF ID!Next

LEMMA BuriedRow ==
    ASSUME IInv, NEW u \in Present, NEW row \in User, Writes(u, row), row.email \notin Addresses,
           users[u].email \in Addresses, Reached' = Reached, typed' = typed
    PROVE  ID!Next
<1> DEFINE e == users[u].email
<1>1. Holder[e] = {u} /\ \A a \in Addresses : u \in Holder[a] <=> e = a
  BY OwnAddress
<1>2. ASSUME NEW a \in Addresses
      PROVE  Holder'[a] = Holder[a] \ {u}
  <2>1. \A w : w \in Holder'[a] <=> (row.email = a /\ w = u) \/ (w # u /\ w \in Holder[a])
    BY RowHolder
  <2> QED
    BY <2>1
<1>3. ASSUME NEW a \in Addresses
      PROVE  Holder'[a] = IF a = e THEN {} ELSE Holder[a]
  <2>1. Holder[a] \ {u} = IF a = e THEN {} ELSE Holder[a]
    BY <1>1
  <2> QED
    BY <1>2, <2>1
<1>4. \A v \in Present : v # u => users[v].email # e
  BY OwnAddress
<1>5. \A a \in Addresses :
        a \in Confirmed' <=> \E v \in Present : v # u /\ users[v].verified /\ users[v].email = a
  BY RowConfirmed
<1>6. \A a \in Addresses : a \in Confirmed' <=> a \in Confirmed /\ a # e
  BY <1>4, <1>5, Seen
<1> QED
  BY <1>3, <1>6, ReleasedAddress

Adds(n, row) ==
    /\ row.state # "erased"
    /\ n \in Ids' /\ n \notin Ids /\ users'[n] = row
    /\ Ids \subseteq Ids'
    /\ \A w \in Ids : users'[w] = users[w]
    /\ \A w \in Ids' : w \in Ids \/ w = n

LEMMA AppendAdds ==
    ASSUME IInv, NEW row \in User, users' = Append(users, row), row.state # "erased"
    PROVE  Adds(Len(users) + 1, row)
BY RowIsAdded DEF Adds, Ids

LEMMA NewRowView ==
    ASSUME NEW n, NEW row, Adds(n, row), NEW a \in Addresses
    PROVE  /\ \A w : w \in Holder'[a] <=> (row.email = a /\ w = n) \/ w \in Holder[a]
           /\ a \in Confirmed' <=> a \in Confirmed \/ (row.verified /\ row.email = a)
           /\ n \notin Holder[a]
<1>1. Present' = Present \cup {n} /\ n \notin Present /\ Present \subseteq Ids
  BY DEF Adds, Present
<1>2. Holder'[a] = {w \in Present \cup {n} : users'[w].email = a}
  BY <1>1, SeenNext
<1>3. Holder[a] = {w \in Present : users[w].email = a}
  BY Seen
<1>4. \A w : w \in Holder'[a] <=> (row.email = a /\ w = n) \/ w \in Holder[a]
  BY <1>1, <1>2, <1>3 DEF Adds
<1>5. a \in Confirmed' <=> \E v \in Present \cup {n} : users'[v].verified /\ users'[v].email = a
  BY <1>1, SeenNext
<1>6. a \in Confirmed <=> \E v \in Present : users[v].verified /\ users[v].email = a
  BY Seen
<1>7. a \in Confirmed' <=> a \in Confirmed \/ (row.verified /\ row.email = a)
  BY <1>1, <1>5, <1>6 DEF Adds
<1> QED
  BY <1>1, <1>3, <1>4, <1>7

(* A new account takes a free address, or none. *)
LEMMA NewRowRefines ==
    ASSUME NEW n \in 1..MaxAccounts, NEW row, Adds(n, row),
           row.email \in Addresses => HolderOf(row.email) = {},
           row.email \in Addresses /\ row.verified => row.email \in Claimed,
           Reached' = Reached, typed' = typed
    PROVE  [ID!Next]_(ID!vars)
<1> DEFINE b == row.email
<1>1. ASSUME NEW a \in Addresses
      PROVE  /\ Holder'[a] = IF a = b THEN Holder[a] \cup {n} ELSE Holder[a]
             /\ a \in Confirmed' <=> a \in Confirmed \/ (row.verified /\ b = a)
             /\ n \notin Holder[a]
  <2>1. /\ \A w : w \in Holder'[a] <=> (row.email = a /\ w = n) \/ w \in Holder[a]
        /\ a \in Confirmed' <=> a \in Confirmed \/ (row.verified /\ row.email = a)
        /\ n \notin Holder[a]
    BY NewRowView
  <2>2. Holder'[a] = IF a = b THEN Holder[a] \cup {n} ELSE Holder[a]
    BY <2>1
  <2> QED
    BY <2>1, <2>2
<1>2. CASE b \in Addresses
  <2>1. Holder[b] = {}
    BY <1>2 DEF Holder
  <2>2. Holder' = [Holder EXCEPT ![b] = {n}]
    <3>1. \A a \in Addresses : Holder'[a] = IF a = b THEN {n} ELSE Holder[a]
      BY <1>1, <2>1
    <3> QED
      BY <3>1 DEF Holder
  <2>3. Confirmed' \in {Confirmed, Confirmed \cup ({b} \cap Claimed)}
    <3>1. \A a \in Addresses : a \in Confirmed' <=> a \in Confirmed \/ (row.verified /\ b = a)
      BY <1>1
    <3>2. CASE row.verified
      <4>1. Confirmed' = Confirmed \cup ({b} \cap Claimed)
        BY <1>2, <3>1, <3>2, Seen, SeenNext
      <4> QED
        BY <4>1
    <3>3. CASE ~row.verified
      <4>1. Confirmed' = Confirmed
        BY <3>1, <3>3, Seen, SeenNext
      <4> QED
        BY <4>1
    <3> QED
      BY <3>2, <3>3
  <2>4. ID!Claim(n, b)
    BY <1>1, <2>1, <2>2, <2>3 DEF ID!Claim, Holder, Confirmed, Claimed
  <2> QED
    BY <1>2, <2>4 DEF ID!Next
<1>3. CASE b \notin Addresses
  <2>1. Holder' = Holder
    <3>1. \A a \in Addresses : Holder'[a] = Holder[a]
      BY <1>1, <1>3
    <3> QED
      BY <3>1 DEF Holder
  <2>2. Confirmed' = Confirmed
    <3>1. \A a \in Addresses : a \in Confirmed' <=> a \in Confirmed
      BY <1>1, <1>3
    <3> QED
      BY <3>1, Seen, SeenNext
  <2> QED
    BY <2>1, <2>2 DEF ID!vars, Holder, Confirmed
<1> QED
  BY <1>2, <1>3

LEMMA HiddenRow ==
    ASSUME IInv, NEW u \in Present, NEW row \in User, Writes(u, row),
           row.email \notin Addresses, users[u].email \notin Addresses
    PROVE  Holder' = Holder /\ Confirmed' = Confirmed
<1>1. ASSUME NEW a \in Addresses
      PROVE  Holder'[a] = Holder[a]
  <2>1. \A w : w \in Holder'[a] <=> (row.email = a /\ w = u) \/ (w # u /\ w \in Holder[a])
    BY RowHolder
  <2>2. u \notin Holder[a]
    BY OwnAddress
  <2> QED
    BY <2>1, <2>2
<1>2. ASSUME NEW a \in Addresses
      PROVE  a \in Confirmed' <=> a \in Confirmed
  <2>1. a \in Confirmed' <=> \E v \in Present : v # u /\ users[v].verified /\ users[v].email = a
    BY RowConfirmed
  <2> QED
    BY <2>1, Seen
<1>3. Holder' = Holder
  BY <1>1 DEF Holder
<1>4. Confirmed' = Confirmed
  BY <1>2, Seen, SeenNext
<1> QED
  BY <1>3, <1>4

LEMMA SameView ==
    ASSUME Holder' = Holder, Confirmed' = Confirmed, Reached' = Reached, typed' = typed
    PROVE  [ID!Next]_(ID!vars)
BY DEF ID!vars, Holder, Confirmed

(* A row gets an address it may have, or a confirmation of one that has    *)
(* been answered for or claimed; or neither.                               *)
LEMMA UpdateRefines ==
    ASSUME IInv, NEW h \in Handlers, NEW u, NEW row, Update(h, u, row),
           u \in Present => row \in User /\ row.state # "erased",
           u \in Present =>
              \/ /\ row.email = users[u].email
                 /\ \/ row.verified = users[u].verified
                    \/ row.verified /\ row.email \in Claimed \cup Nowhere
              \/ /\ row.verified = users[u].verified
                 /\ \/ row.email \notin Addresses
                    \/ row.email \in Reached /\ HolderOf(row.email) \subseteq {u},
           Reached' = Reached, typed' = typed
    PROVE  [ID!Next]_(ID!vars)
<1>1. CASE u \notin Present
  <2>1. UNCHANGED users
    BY <1>1 DEF Update
  <2> QED
    BY <2>1, ViewStays, SameView
<1>2. CASE u \in Present
  <2>1. row \in User /\ users[u] \in User
    BY <1>2, RowsAreRows DEF IInv, Present, Ids
  <2>2. users' = [users EXCEPT ![u] = row]
    BY <1>2 DEF Update
  <2>3. Writes(u, row)
    BY <1>2, <2>1, <2>2, UpdateWrites
  <2>4. row.verified \in BOOLEAN /\ users[u].verified \in BOOLEAN
    BY <2>1 DEF User
  <2>5. Claimed \subseteq Addresses /\ Nowhere \cap Addresses = {}
    BY SentinelsAreNoAddresses DEF Claimed, Reached, Nowhere, IInv, TypeOK
  <2>6. CASE row.email = users[u].email /\ row.verified = users[u].verified
    BY <1>2, <2>1, <2>3, <2>6, KeptRow, SameView
  <2>7. CASE /\ row.email = users[u].email /\ row.verified # users[u].verified
             /\ row.email \in Claimed \cup Nowhere /\ row.verified
    <3>1. CASE row.email \in Addresses
      <4>1. row.email \in Claimed
        BY <2>5, <2>7, <3>1
      <4>2. Holder' = Holder /\ Confirmed' = Confirmed \cup {row.email}
        BY <1>2, <2>1, <2>3, <2>7, <3>1, KeptRow
      <4>3. Holder[row.email] # {}
        BY <1>2, <2>7, <3>1, OwnAddress
      <4>4. ID!Confirm(row.email)
        BY <4>1, <4>2, <4>3 DEF ID!Confirm, Holder, Confirmed, Claimed
      <4> QED
        BY <3>1, <4>4 DEF ID!Next
    <3>2. CASE row.email \notin Addresses
      BY <1>2, <2>1, <2>3, <2>7, <3>2, KeptRow, SameView
    <3> QED
      BY <3>1, <3>2
  <2>8. CASE row.email # users[u].email /\ row.verified = users[u].verified
             /\ row.email \notin Addresses
    <3>1. CASE users[u].email \in Addresses
      BY <1>2, <2>1, <2>3, <2>8, <3>1, BuriedRow
    <3>2. CASE users[u].email \notin Addresses
      BY <1>2, <2>1, <2>3, <2>8, <3>2, HiddenRow, SameView
    <3> QED
      BY <3>1, <3>2
  <2>9. CASE /\ row.email # users[u].email /\ row.verified = users[u].verified
             /\ row.email \in Reached /\ HolderOf(row.email) \subseteq {u}
    BY <1>2, <2>1, <2>3, <2>5, <2>9, MovedRow DEF Claimed
  <2> QED
    BY <1>2, <2>6, <2>7, <2>8, <2>9
<1> QED
  BY <1>1, <1>2

LEMMA ErasedRow ==
    ASSUME IInv, NEW u \in Ids, AdminDelete(u), Reached' = Reached, typed' = typed
    PROVE  [ID!Next]_(ID!vars)
<1> DEFINE e == users[u].email
<1>1. u \in Present /\ users[u] \in User
  BY RowsAreRows DEF IInv, AdminDelete, Ids
<1>2. /\ Ids' = Ids /\ users'[u].state = "erased"
      /\ \A w \in Ids : w # u => users'[w] = users[w]
  BY <1>1 DEF AdminDelete, Ids, User
<1>3. Present' = Present \ {u} /\ Present \subseteq Ids
  BY <1>2 DEF Present
<1>4. ASSUME NEW a \in Addresses
      PROVE  /\ \A w : w \in Holder'[a] <=> w # u /\ w \in Holder[a]
             /\ a \in Confirmed' <=> \E v \in Present : v # u /\ users[v].verified
                                                              /\ users[v].email = a
  <2>1. Holder[a] = {w \in Present : users[w].email = a}
    BY Seen
  <2>2. Holder'[a] = {w \in Present \ {u} : users'[w].email = a}
    BY <1>3, SeenNext
  <2>3. \A w : w \in Holder'[a] <=> w # u /\ w \in Holder[a]
    BY <1>2, <1>3, <2>1, <2>2
  <2>4. a \in Confirmed' <=> \E v \in Present \ {u} : users'[v].verified /\ users'[v].email = a
    BY <1>3, SeenNext
  <2> QED
    BY <1>2, <1>3, <2>3, <2>4
<1>5. \A a \in Addresses : u \in Holder[a] <=> e = a
  BY <1>1, OwnAddress
<1>6. CASE e \in Addresses
  <2>1. Holder[e] = {u} /\ \A v \in Present : v # u => users[v].email # e
    BY <1>1, <1>6, OwnAddress
  <2>2. ASSUME NEW a \in Addresses
        PROVE  Holder'[a] = IF a = e THEN {} ELSE Holder[a]
    <3>1. \A w : w \in Holder'[a] <=> w # u /\ w \in Holder[a]
      BY <1>4
    <3>2. Holder'[a] = Holder[a] \ {u}
      BY <3>1
    <3>3. Holder[a] \ {u} = IF a = e THEN {} ELSE Holder[a]
      BY <1>5, <2>1
    <3> QED
      BY <3>2, <3>3
  <2>3. ASSUME NEW a \in Addresses
        PROVE  a \in Confirmed' <=> a \in Confirmed /\ a # e
    <3>1. a \in Confirmed <=> \E v \in Present : users[v].verified /\ users[v].email = a
      BY Seen
    <3> QED
      BY <1>4, <2>1, <3>1
  <2> HIDE DEF e
  <2> QED
    BY <1>6, <2>2, <2>3, ReleasedAddress
<1>7. CASE e \notin Addresses
  <2>1. ASSUME NEW a \in Addresses
        PROVE  Holder'[a] = Holder[a]
    <3>1. \A w : w \in Holder'[a] <=> w # u /\ w \in Holder[a]
      BY <1>4
    <3>2. u \notin Holder[a]
      BY <1>5, <1>7
    <3> QED
      BY <3>1, <3>2
  <2>2. ASSUME NEW a \in Addresses
        PROVE  a \in Confirmed' <=> a \in Confirmed
    <3>1. a \in Confirmed <=> \E v \in Present : users[v].verified /\ users[v].email = a
      BY Seen
    <3> QED
      BY <1>4, <1>7, <3>1
  <2>3. Holder' = Holder
    BY <2>1 DEF Holder
  <2>4. Confirmed' = Confirmed
    BY <2>2, Seen, SeenNext
  <2> QED
    BY <2>3, <2>4, SameView
<1> QED
  BY <1>6, <1>7

(* An address answers, or is claimed, while every account stays as it is.  *)
AnswersAdd ==
    \/ Reached' = Reached /\ typed' = typed
    \/ \E a \in Addresses : Reached' = Reached \cup {a} /\ typed' = typed
    \/ \E a \in Addresses : Reached' = Reached /\ typed' = typed \cup {a}

LEMMA AnswerRefines ==
    ASSUME UNCHANGED users, AnswersAdd
    PROVE  [ID!Next]_(ID!vars)
<1>1. Holder' = Holder /\ Confirmed' = Confirmed
  BY ViewStays
<1>2. CASE Reached' = Reached /\ typed' = typed
  BY <1>1, <1>2, SameView
<1>3. ASSUME NEW a \in Addresses, Reached' = Reached \cup {a}, typed' = typed
      PROVE  [ID!Next]_(ID!vars)
  <2>1. ID!Prove(a)
    BY <1>1, <1>3 DEF ID!Prove, Holder, Confirmed
  <2> QED
    BY <2>1 DEF ID!Next
<1>4. ASSUME NEW a \in Addresses, Reached' = Reached, typed' = typed \cup {a}
      PROVE  [ID!Next]_(ID!vars)
  <2>1. ID!Say(a)
    BY <1>1, <1>4 DEF ID!Say, Holder, Confirmed
  <2> QED
    BY <2>1 DEF ID!Next
<1> QED
  BY <1>2, <1>3, <1>4 DEF AnswersAdd

LEMMA RequestRefines ==
    ASSUME IInv, NEW h \in Handlers, Request(h)
    PROVE  [ID!Next]_(ID!vars)
<1>1. UNCHANGED <<users, inbox>>
  BY RequestAccepts DEF Accept, tables, post
<1>2. CASE UNCHANGED credit
  BY <1>1, <1>2, AnswerRefines DEF credit, Reached, AnswersAdd
<1>3. ASSUME NEW s \in Subjects, NEW a \in Addresses \cup {None}, NEW signed \in BOOLEAN,
             SignIn(h, s, a, signed)
      PROVE  [ID!Next]_(ID!vars)
  <2>1. CASE a = None
    <3>1. vouched' = vouched /\ typed' = typed
      BY <1>3, <2>1 DEF SignIn
    <3> QED
      BY <1>1, <3>1, AnswerRefines DEF Reached, AnswersAdd
  <2>2. CASE a # None /\ signed
    <3>1. a \in Addresses /\ vouched' = vouched \cup {a} /\ typed' = typed
      BY <1>3, <2>2 DEF SignIn
    <3>2. Reached' = Reached \cup {a}
      BY <1>1, <3>1 DEF Reached
    <3> QED
      BY <1>1, <3>1, <3>2, AnswerRefines DEF AnswersAdd
  <2>3. CASE a # None /\ ~signed
    <3>1. a \in Addresses /\ vouched' = vouched /\ typed' = typed \cup {a}
      BY <1>3, <2>3 DEF SignIn
    <3>2. Reached' = Reached
      BY <1>1, <3>1 DEF Reached
    <3> QED
      BY <1>1, <3>1, <3>2, AnswerRefines DEF AnswersAdd
  <2> QED
    BY <2>1, <2>2, <2>3
<1>4. ASSUME NEW u \in Present, NEW a \in Addresses, AdminSetEmail(h, u, a)
      PROVE  [ID!Next]_(ID!vars)
  <2>1. vouched' = vouched \cup {a} /\ typed' = typed
    BY <1>4 DEF AdminSetEmail
  <2>2. Reached' = Reached \cup {a}
    BY <1>1, <2>1 DEF Reached
  <2> QED
    BY <1>1, <2>1, <2>2, AnswerRefines DEF AnswersAdd
<1>5. \/ UNCHANGED credit
      \/ \E s \in Subjects, a \in Addresses \cup {None}, signed \in BOOLEAN :
            SignIn(h, s, a, signed)
      \/ \E u \in Present, a \in Addresses : AdminSetEmail(h, u, a)
  <2>1. CASE EntryRequest(h) \/ CodeRequest(h)
    BY <2>1 DEF EntryRequest, Register, Login, CodeRequest, AskForCode, VerifyEmail,
                ResetPassword
  <2>2. CASE ProfileRequest(h)
    BY <2>2 DEF ProfileRequest, ChangePassword, RequestEmailChange, ChangeEmail
  <2>3. CASE FactorRequest(h) \/ AccountRequest(h)
    BY <2>3 DEF FactorRequest, TwoFactor, AccountRequest, DeleteAccount, HelpSupport
  <2>4. CASE ProviderRequest(h) \/ AdminRequest(h) \/ \E u \in Present : Logout(h, u)
    BY <2>4 DEF ProviderRequest, AdminRequest, Logout
  <2> QED
    BY <2>1, <2>2, <2>3, <2>4 DEF Request
<1> QED
  BY <1>2, <1>3, <1>4, <1>5

LEMMA DeliverRefines ==
    ASSUME IInv, NEW job \in mailQueue, Work(job) \/ WorkFails(job)
    PROVE  [ID!Next]_(ID!vars)
<1>1. /\ UNCHANGED <<users, vouched, typed>>
      /\ \/ inbox' = inbox
         \/ job.to \in Addresses /\ inbox' = inbox \cup {<<job.to, job.code>>}
  BY HistoryStays DEF Work, WorkFails, Deliver, tables
<1>2. \/ Reached' = Reached
      \/ job.to \in Addresses /\ Reached' = Reached \cup {job.to}
  BY <1>1 DEF Reached
<1> QED
  BY <1>1, <1>2, AnswerRefines DEF AnswersAdd

LEMMA RowStepRefines ==
    ASSUME IInv, NEW h \in Handlers,
           Verify(h) \/ Rekey(h) \/ Move(h) \/ Bury(h) \/ Link(h) \/ SwitchTwoFactor(h)
    PROVE  [ID!Next]_(ID!vars)
<1> DEFINE c == call[h]
<1>1. Reached' = Reached /\ typed' = typed
  BY HistoryStays
  DEF Verify, Rekey, Move, Bury, Link, SwitchTwoFactor, post, credit, Reached
<1>2. CASE UNCHANGED users
  BY <1>1, <1>2, AnswerRefines DEF AnswersAdd
<1>3. \A u \in Present : users[u] \in User /\ users[u].state # "erased"
  BY RowsAreRows DEF IInv, Present, Ids
<1>4. CASE Verify(h)
  <2> DEFINE row == VerifiedRow(users[c.user])
  <2>1. c.todo = ToVerify /\ Knows(users, ucodes, Reached, Claimed, Received, c.todo, c)
    <3>1. c.todo # <<>> /\ Head(c.todo) = "verify"
      BY <1>4 DEF Verify, At
    <3> QED
      BY <3>1, CallAt, Heads
  <2>2. users[c.user].email \in Claimed \cup Nowhere
    BY <2>1 DEF Knows, Claimed
  <2>3. c.user \in Present => /\ row \in User /\ row.state # "erased"
                              /\ row.email = users[c.user].email /\ row.verified
    BY PresentRows, VerifiedRowIsRow
  <2>4. Update(h, c.user, row)
    BY <1>4 DEF Verify, VerifiedRow
  <2> HIDE DEF row, c
  <2> QED
    BY <1>1, <2>2, <2>3, <2>4, UpdateRefines
<1>5. ASSUME NEW u \in HolderOf(c.email), Update(h, u, [users[u] EXCEPT !.password = TRUE])
      PROVE  [ID!Next]_(ID!vars)
  <2> DEFINE row == RekeyedRow(users[u])
  <2>1. u \in Present => /\ row \in User /\ row.state # "erased"
                         /\ row.email = users[u].email /\ row.verified = users[u].verified
    BY PresentRows, RekeyedRowIsRow
  <2>2. Update(h, u, row)
    BY <1>5 DEF RekeyedRow
  <2> HIDE DEF row, c
  <2> QED
    BY <1>1, <2>1, <2>2, UpdateRefines
<1>6. CASE Move(h) /\ ~UNCHANGED users
  <2> DEFINE row == ReadressedRow(users[c.user], c.email)
  <2>1. c.todo \in {ToMoveSpend, ToMove} /\ Knows(users, ucodes, Reached, Claimed, Received, c.todo, c)
    <3>1. c.todo # <<>> /\ Head(c.todo) = "move"
      BY <1>6 DEF Move, At
    <3> QED
      BY <3>1, CallAt, Heads
  <2>2. c.email \in Addresses /\ c.email \in Reached
    BY <2>1 DEF Knows
  <2>3. HolderOf(c.email) \subseteq {c.user} /\ Update(h, c.user, row)
    BY <1>6 DEF Move, ChangeBy, ReadressedRow
  <2>4. c.user \in Present => /\ row \in User /\ row.state # "erased" /\ row.email = c.email
                              /\ row.verified = users[c.user].verified
    BY <2>2, PresentRows, ReadressedRowIsRow DEF Email
  <2> HIDE DEF row, c
  <2> QED
    BY <1>1, <2>2, <2>3, <2>4, UpdateRefines
<1>7. CASE Bury(h)
  <2> DEFINE e == IF c.email = None THEN users[c.user].email ELSE Unreachable
             row == TombRow(users[c.user], e)
  <2>1. Update(h, c.user, row)
    <3>1. c.user \in Present =>
            row = [users[c.user] EXCEPT !.state = "deleted", !.ids = {},
                     !.email = IF c.email = None THEN @ ELSE Unreachable]
      BY <1>3 DEF User, TombRow
    <3> HIDE DEF row
    <3> QED
      BY <1>7, <3>1 DEF Bury, Update
  <2>2. e = users[c.user].email \/ e \notin Addresses
    BY SentinelsAreNoAddresses
  <2>3. c.user \in Present => e \in Email
    BY <1>3 DEF User, Email
  <2> HIDE DEF e
  <2>4. c.user \in Present => /\ row \in User /\ row.state # "erased" /\ row.email = e
                              /\ row.verified = users[c.user].verified
    BY <2>3, PresentRows, TombRowIsRow
  <2> HIDE DEF row, c
  <2> QED
    BY <1>1, <2>1, <2>2, <2>4, UpdateRefines
<1>8. CASE Link(h) /\ ~UNCHANGED users
  <2> DEFINE s == c.subject
             had == c.seen \cap OfProvider(s)
             id == IF had = {} THEN {s} ELSE had
             row == LinkedRow(users[c.user], s, id)
  <2>1. c.todo = ToLink /\ Knows(users, ucodes, Reached, Claimed, Received, c.todo, c)
    <3>1. c.todo # <<>> /\ Head(c.todo) = "link"
      BY <1>8 DEF Link, At
    <3> QED
      BY <3>1, CallAt, Heads
  <2>2. users[c.user].email \in Claimed \cup Nowhere /\ s \in Subjects
    BY <2>1 DEF Knows
  <2>3. id \in SUBSET Subjects
    BY <2>2 DEF OfProvider
  <2>4. Update(h, c.user, row)
    BY <1>8 DEF Link, LinkedRow
  <2> HIDE DEF id, s, c
  <2>5. c.user \in Present => /\ row \in User /\ row.state # "erased"
                              /\ row.email = users[c.user].email /\ row.verified
    BY <1>3, <2>3, LinkedRowIsRow
  <2> HIDE DEF row
  <2> QED
    BY <1>1, <2>2, <2>4, <2>5, UpdateRefines
<1>9. CASE SwitchTwoFactor(h)
  <2>1. PICK what \in {"generate", "enable", "disable"} :
          Update(h, c.user, SwitchedRow(users[c.user], what))
    BY <1>9 DEF SwitchTwoFactor, SwitchedRow
  <2> DEFINE row == SwitchedRow(users[c.user], what)
  <2> HIDE DEF c
  <2>2. c.user \in Present => /\ row \in User /\ row.state # "erased"
                              /\ row.email = users[c.user].email
                              /\ row.verified = users[c.user].verified
    BY <1>3, SwitchedRowIsRow
  <2>3. Update(h, c.user, row)
    BY <2>1
  <2> HIDE DEF row
  <2> QED
    BY <1>1, <2>2, <2>3, UpdateRefines
<1>10. Rekey(h) => \/ UNCHANGED users
                   \/ \E u \in HolderOf(c.email) : Update(h, u, [users[u] EXCEPT !.password = TRUE])
  BY DEF Rekey, ChangeBy
<1> QED
  BY <1>2, <1>4, <1>5, <1>6, <1>7, <1>8, <1>9, <1>10

LEMMA CreateRefines ==
    ASSUME IInv, NEW h \in Handlers, Create(h) \/ Adopt(h)
    PROVE  [ID!Next]_(ID!vars)
<1>1. Reached' = Reached /\ typed' = typed
  BY HistoryStays DEF Create, Adopt, post, Reached
<1>2. CASE UNCHANGED users
  BY <1>1, <1>2, AnswerRefines DEF AnswersAdd
<1>3. ASSUME NEW row \in User, users' = Append(users, row), row.state # "erased",
             Len(users) < MaxAccounts,
             row.email \in Addresses => HolderOf(row.email) = {},
             row.email \in Addresses /\ row.verified => row.email \in Claimed
      PROVE  [ID!Next]_(ID!vars)
  <2> DEFINE n == Len(users) + 1
  <2>1. Adds(n, row)
    BY <1>3, AppendAdds
  <2>2. n \in 1..MaxAccounts
    BY <1>3, RowsAreRows, BoundsAreNumbers DEF IInv
  <2> HIDE DEF n
  <2> QED
    BY <1>1, <1>3, <2>1, <2>2, NewRowRefines
<1>4. CASE Create(h) /\ ~UNCHANGED users
  <2> DEFINE row == NewUser(call[h].email)
  <2>1. call[h].email \in Addresses
    <3>1. call[h].todo # <<>> /\ Head(call[h].todo) = "create"
      BY <1>4 DEF Create, At
    <3>2. call[h].todo = ToCreate
      BY <3>1, CallAt, Heads
    <3> QED
      BY <3>1, <3>2, CallAt DEF Knows
  <2>2. row \in User /\ row.state = "live" /\ row.email = call[h].email /\ row.verified = FALSE
    BY <2>1 DEF NewUser, User, Email
  <2>3. users' = Append(users, row) /\ HolderOf(call[h].email) = {} /\ Len(users) < MaxAccounts
    BY <1>4 DEF Create
  <2> HIDE DEF row
  <2> QED
    BY <1>3, <2>2, <2>3
<1>5. CASE Adopt(h)
  BY <1>2, <1>3, <1>5, AdoptCases
<1> QED
  BY <1>2, <1>4, <1>5

LEMMA NextRefines ==
    ASSUME IInv, [Next]_vars
    PROVE  [ID!Next]_(ID!vars)
<1>1. ASSUME NEW h \in Handlers, Request(h)
      PROVE  [ID!Next]_(ID!vars)
  BY <1>1, RequestRefines
<1>2. ASSUME NEW h \in Handlers, Step(h)
      PROVE  [ID!Next]_(ID!vars)
  <2>1. CASE Create(h) \/ Adopt(h)
    BY <2>1, CreateRefines
  <2>2. CASE Verify(h) \/ Rekey(h) \/ Move(h) \/ Bury(h) \/ Link(h) \/ SwitchTwoFactor(h)
    BY <2>2, RowStepRefines
  <2>3. CASE \/ CreateToken(h) \/ SendOtpCodeToEmail(h) \/ SendSupportRequest(h)
             \/ ValidateToken(h) \/ Compare(h) \/ Spend(h) \/ Match(h)
             \/ VerifyTwoFactor(h) \/ StoreToken(h) \/ DropToken(h)
    <3>1. UNCHANGED <<users, inbox, vouched, typed>>
      BY <2>3, HistoryStays DEF CreateToken, SendOtpCodeToEmail, SendSupportRequest, Enqueue, ValidateToken,
                  Compare, Spend, Match, VerifyTwoFactor, StoreToken, DropToken,
                  tables, post
    <3>2. Reached' = Reached
      BY <3>1 DEF Reached
    <3> QED
      BY <3>1, <3>2, AnswerRefines DEF AnswersAdd
  <2> QED
    BY <1>2, <2>1, <2>2, <2>3 DEF Step
<1>3. ASSUME NEW h \in Handlers, Fail(h)
      PROVE  [ID!Next]_(ID!vars)
  <2>1. UNCHANGED users /\ Reached' = Reached /\ typed' = typed
    BY <1>3 DEF Fail, tables, post, credit, Reached
  <2> QED
    BY <2>1, AnswerRefines DEF AnswersAdd
<1>4. ASSUME NEW job \in mailQueue, Work(job) \/ WorkFails(job)
      PROVE  [ID!Next]_(ID!vars)
  BY <1>4, DeliverRefines
<1>5. ASSUME NEW c \in DOMAIN ucodes, Expire(c)
      PROVE  [ID!Next]_(ID!vars)
  <2>1. UNCHANGED users /\ Reached' = Reached /\ typed' = typed
    BY <1>5, HistoryStays DEF Expire, post, Reached
  <2> QED
    BY <2>1, AnswerRefines DEF AnswersAdd
<1>6. ASSUME NEW u \in Ids, AdminDelete(u)
      PROVE  [ID!Next]_(ID!vars)
  <2>1. Reached' = Reached /\ typed' = typed
    BY <1>6, HistoryStays DEF AdminDelete, post, Reached
  <2> QED
    BY <1>6, <2>1, ErasedRow
<1>7. CASE UNCHANGED vars
  <2>1. UNCHANGED users /\ Reached' = Reached /\ typed' = typed
    BY <1>7 DEF vars, Reached
  <2> QED
    BY <2>1, AnswerRefines DEF AnswersAdd
<1> QED
  BY <1>1, <1>2, <1>3, <1>4, <1>5, <1>6, <1>7 DEF Next

(* However calls, failures, mails and sign-ins overlap: an address belongs *)
(* to one account at a time; an account moves only to an address whose     *)
(* mailbox has received a code, that a provider's token has carried or an  *)
(* administrator has typed; and an address becomes confirmed               *)
(* (email_verified_at) only when it is such a one, or one that a client    *)
(* has named in the body of an Apple sign-in.  For the latter nobody       *)
(* stands: the strategy takes an address that no token signs.              *)
THEOREM AccountsImplementIdentity == Spec => ImplementsIdentity
<1>1. Init => ID!Init
  BY InitRefines
<1>2. IInv /\ [Next]_vars => [ID!Next]_(ID!vars)
  BY NextRefines
<1> QED
  BY <1>1, <1>2, SpecInv, PTL DEF Spec, ImplementsIdentity, ID!Spec
=============================================================================
