---------------------------- MODULE Rooms_proofs ----------------------------
(* What the naming of conversations guarantees, for all accounts. *)
EXTENDS Rooms, TLAPS

\* The backends are named where 2147483647 is visible: Zenon writes it in unary.
LEMMA AccountsArePositive ==
  Int32Max \in Nat /\ \A a \in Account : a \in Nat /\ a > 0 /\ a <= Int32Max
<1>1. Int32Max \in Nat
  BY SMT DEF Int32Max
<1>. QED BY <1>1 DEF Account

\* Multiplying by an account is injective and monotone.
LEMMA Cancel ==
  ASSUME NEW a \in Account, NEW b \in Nat, NEW c \in Nat
  PROVE  /\ a * b = a * c => b = c
         /\ b <= c => a * b <= a * c
BY AccountsArePositive

(* The id that a dictation asks the language of (Int(conversationName) /   *)
(* Int(userId)) is the friend's, at whichever end it is computed.          *)
THEOREM FriendRecovered ==
  \A a, b \in Account : FriendOf(RoomName(a, b), a) = b /\ FriendOf(RoomName(a, b), b) = a
<1>1. ASSUME NEW a \in Account, NEW b \in Account
      PROVE  (a * b) \div a = b
  <2>1. a \in Nat /\ a > 0 /\ b \in Nat /\ a * b \in Nat
    BY AccountsArePositive
  <2>. DEFINE q == (a * b) \div a
  <2>2. q \in Nat /\ a * q <= a * b /\ a * b < a * (q + 1)
    BY <2>1
  <2>3. q <= b /\ b < q + 1
    BY <2>1, <2>2
  <2>. QED BY <2>1, <2>2, <2>3
<1>2. \A a, b \in Account : a * b = b * a
  BY AccountsArePositive
<1>. QED BY <1>1, <1>2 DEF FriendOf, RoomName

(* Both ends write and read below one name. *)
THEOREM BothEndsMeet ==
  \A a, b \in Account : RoomName(a, b) = RoomName(b, a)
BY AccountsArePositive DEF RoomName

(* Two conversations of one account never share a room: a room that is     *)
(* shared is shared by four accounts.                                      *)
THEOREM RoomsOfOneAccountDiffer ==
  \A a, b, c \in Account : RoomName(a, b) = RoomName(a, c) => b = c
BY Cancel, AccountsArePositive DEF RoomName

(* The multiplication traps exactly when the product is no Int32. *)
THEOREM FitsIsInt32 ==
  \A a, b \in Account : Fits(a, b) <=> RoomName(a, b) <= Int32Max
<1>. SUFFICES ASSUME NEW a \in Account, NEW b \in Account
              PROVE  b <= Int32Max \div a <=> a * b <= Int32Max
  BY DEF Fits, RoomName
<1>. DEFINE q == Int32Max \div a
<1>1. a \in Nat /\ a > 0 /\ b \in Nat /\ Int32Max \in Nat
  BY AccountsArePositive
<1>2. q \in Nat /\ a * q <= Int32Max /\ Int32Max < a * (q + 1)
  BY <1>1
<1>. HIDE DEF q
<1>3. ASSUME b <= q PROVE a * b <= Int32Max
  <2>1. a * b <= a * q
    BY <1>1, <1>2, <1>3
  <2>. QED BY <1>1, <1>2, <2>1
<1>4. ASSUME ~(b <= q) PROVE ~(a * b <= Int32Max)
  <2>1. a * (q + 1) <= a * b
    BY <1>1, <1>2, <1>4
  <2>. QED BY <1>1, <1>2, <2>1
<1>. QED BY <1>3, <1>4 DEF q

(* As long as the ids that the server gives stay below the square root of  *)
(* Int32Max (46340) no conversation overflows.                             *)
THEOREM SmallIdsFit ==
  \A limit \in Nat : limit * limit <= Int32Max =>
    \A a, b \in Account : a <= limit /\ b <= limit => Fits(a, b)
<1>. SUFFICES ASSUME NEW limit \in Nat, limit * limit <= Int32Max,
                     NEW a \in Account, NEW b \in Account, a <= limit, b <= limit
              PROVE  a * b <= Int32Max
  BY FitsIsInt32 DEF RoomName
<1>1. a \in Nat /\ b \in Nat /\ Int32Max \in Nat
  BY AccountsArePositive
<1>2. a * b <= limit * b /\ limit * b <= limit * limit
  BY <1>1
<1>. QED BY <1>1, <1>2
=============================================================================
