------------------------------- MODULE Digits -------------------------------
(***************************************************************************)
(* Integers to text and back: count_places and wtoa of common.h, itostr    *)
(* and strtoi of adv_string.c, called on one block of memory again and     *)
(* again, as the demonstration in hixo.c:447-457 does.                     *)
(*                                                                         *)
(* A character is its distance from '0', as in the code's arithmetic: a    *)
(* digit is its value, and '-' and NUL are below it.  intptr_t is narrow:  *)
(* its largest value and the table of nines that fits are constants.       *)
(***************************************************************************)
EXTENDS Integers, Sequences

CONSTANTS
  INTEGER_MAX,   \* largest intptr_t
  N_PLACES,      \* entries of places_max
  Magnitudes,    \* absolute values of the numbers to be written
  Capacity,      \* bytes of the buffer
  MaxWrites      \* bound: texts written to the buffer

INTEGER_MIN == -INTEGER_MAX - 1
Integer == INTEGER_MIN..INTEGER_MAX
Nums == (Magnitudes \cup {-m : m \in Magnitudes}) \cap Integer

(* The largest numbers of 1, 2, 3... digits. *)
places_max[i \in 0..(N_PLACES - 1)] ==
  IF i = 0 THEN 9 ELSE 10 * places_max[i - 1] + 9

(* The largest integer has one digit more than the table has entries, and  *)
(* is not the largest number of that many digits.                          *)
ASSUME ConstantsAssumption ==
  /\ INTEGER_MAX \in Nat /\ N_PLACES \in Nat \ {0}
  /\ places_max[N_PLACES - 1] < INTEGER_MAX
  /\ INTEGER_MAX < 10 * places_max[N_PLACES - 1] + 9
  /\ Magnitudes \subseteq Nat /\ Capacity \in Nat
  /\ MaxWrites \in Nat

Minus == -3
Nul == -48
Other == 99                 \* what the memory held before
Chars == -9..9 \cup {Nul, Other}

VARIABLES
  mem,     \* the buffer, from 0, and the byte behind it
  value,   \* the variable strtoi stores into
  call,    \* the last call: function, its arguments and what it returned
  writes   \* calls that wrote a text
vars == <<mem, value, call, writes>>

Bytes == 0..Capacity

Init ==
  /\ mem = [i \in Bytes |-> Other]
  /\ value = 0
  /\ call = [fn |-> "malloc", num |-> 0, n |-> 0, ret |-> TRUE]
  /\ writes = 0

Store(m, i, c) == [m EXCEPT ![i] = c]
(* The characters of s from byte i on. *)
StoreText(m, i, s) ==
  [b \in Bytes |-> IF b - i \in 0..(Len(s) - 1) THEN s[b - i + 1] ELSE m[b]]

-----------------------------------------------------------------------------
(* common.h *)

abs_value(num) ==
  IF num = INTEGER_MIN THEN -1 ELSE IF num > 0 THEN num ELSE -num

(* The number of digits of positive by binary search in the table. *)
SearchPlaces_last(positive) ==   \* mutant: no number is past the table
  LET fits == {i \in 0..(N_PLACES - 1) : positive <= places_max[i]}
  IN IF fits = {} THEN N_PLACES
     ELSE 1 + CHOOSE i \in fits : \A j \in fits : i <= j
SearchPlaces(positive) ==
  LET search[w \in (0..N_PLACES) \X (0..N_PLACES) \X Nat] ==
        LET start == w[1]  end == w[2]  rslt == w[3]
            middle == start + (end - start) \div 2
        IN IF start >= end THEN rslt
           ELSE IF positive <= places_max[middle]
           THEN search[<<start, middle, middle + 1>>]
           ELSE search[<<middle + 1, end, middle + 2>>]
  IN search[<<0, N_PLACES, 0>>]

count_places(num) ==
  LET positive == abs_value(IF num = INTEGER_MIN THEN num + 1 ELSE num)
  IN SearchPlaces(positive) + IF num < 0 THEN 1 ELSE 0

(* The digits of v from the lowest, as repeated division by 10 gives them. *)
LowDigits(v) ==
  LET of[u \in Nat] == IF u = 0 THEN <<>> ELSE <<u % 10>> \o of[u \div 10]
  IN of[v]

__str_reverse__(s) == [i \in 1..Len(s) |-> s[Len(s) + 1 - i]]

STR_INTEGER_MIN == <<Minus>> \o __str_reverse__(LowDigits(-INTEGER_MIN))

(* What wtoa puts in front of the NUL. *)
WtoaText(num) ==
  IF abs_value(num) = 0 THEN <<0>>
  ELSE __str_reverse__(LowDigits(abs_value(num))
                         \o IF num < 0 THEN <<Minus>> ELSE <<>>)

WtoaFits_exact(places, len) == places <= len  \* mutant: no room for the NUL
WtoaFits(places, len) == places <= len - 1

(* The text of INTEGER_MIN is copied without a NUL. *)
wtoa(num, places, len) ==
  LET s == IF num = INTEGER_MIN THEN STR_INTEGER_MIN
           ELSE Append(WtoaText(num), Nul)
      fits == WtoaFits(places, len)
  IN /\ mem' = IF fits THEN StoreText(mem, 0, s) ELSE mem
     /\ call' = [fn |-> "wtoa", num |-> num, n |-> len, ret |-> fits]
     /\ UNCHANGED value

-----------------------------------------------------------------------------
(* adv_string.c *)

strreverse(s) == [i \in 1..Len(s) |-> s[Len(s) + 1 - i]]

(* num = -num overflows for INTEGER_MIN.  Compiled as it stands it leaves  *)
(* num as it was; an optimiser that knows num to be positive afterwards    *)
(* divides it as an unsigned number.                                       *)
Negated(num) ==
  IF num = INTEGER_MIN THEN {INTEGER_MIN, -INTEGER_MIN} ELSE {-num}

(* num % 10 has the sign of num. *)
Remainders(num) ==
  IF num < 0 THEN [i \in 1..Len(LowDigits(-num)) |-> -LowDigits(-num)[i]]
  ELSE LowDigits(num)

(* while (num && (--n)): how many digits are stored at most. *)
DigitRoom(n) == n - 1

(* The higher digits are lost when there is no room. *)
itostr(num, n) ==
  /\ \E v \in IF num < 0 THEN Negated(num) ELSE {num} :
       LET start == IF num < 0 THEN 1 ELSE 0
           all == Remainders(v)
           k == IF Len(all) < DigitRoom(n) THEN Len(all) ELSE DigitRoom(n)
           s == IF num = 0 THEN <<0>> ELSE strreverse(SubSeq(all, 1, k))
           m == IF num < 0 THEN Store(mem, 0, Minus) ELSE mem
       IN mem' = IF n - 1 < 1 THEN mem
                 ELSE StoreText(m, start, Append(s, Nul))
  /\ call' = [fn |-> "itostr", num |-> num, n |-> n, ret |-> n - 1 >= 1]
  /\ UNCHANGED value

Wrap(x) == ((x - INTEGER_MIN) % (2 * (INTEGER_MAX + 1))) + INTEGER_MIN

Sign_lost(m) == 0             \* mutant: the '-' is not skipped
Sign(m) == IF m[0] = Minus THEN 1 ELSE 0

strtoi(n) ==
  LET start == Sign(mem)
      ok == \A i \in start..(n - 1) : mem[i] \in 0..9
      read[i \in 0..n] ==
        IF i <= start THEN 0 ELSE Wrap(read[i - 1] * 10 + mem[i - 1])
  IN /\ value' = IF ~ok THEN value
                 ELSE IF start = 1 THEN Wrap(0 - read[n]) ELSE read[n]
     /\ call' = [fn |-> "strtoi", num |-> 0, n |-> n, ret |-> ok]
     /\ UNCHANGED mem

-----------------------------------------------------------------------------

(* wtoa is given the places of its number; the demonstration gives it      *)
(* those of the largest one for all its three numbers.                     *)
Demo == {INTEGER_MAX, INTEGER_MIN, 0}
Wtoa ==
  \E num \in Nums, len \in 1..Capacity :
    \/ wtoa(num, count_places(num), len)
    \/ num \in Demo /\ wtoa(num, count_places(INTEGER_MAX), len)
Itostr == \E num \in Nums, n \in 1..Capacity : itostr(num, n)
Strtoi == \E n \in 1..Capacity : strtoi(n)

Next ==
  \/ writes < MaxWrites /\ writes' = writes + 1 /\ (Wtoa \/ Itostr)
  \/ UNCHANGED writes /\ Strtoi

Spec == Init /\ [][Next]_vars
-----------------------------------------------------------------------------
(* Properties *)

(* Only characters the conversions may store are in the buffer, and strtoi *)
(* stores an intptr_t.                                                     *)
TypeOK ==
  /\ mem \in [Bytes -> Chars]
  /\ value \in Integer
  /\ call.num \in Integer /\ call.n \in 0..Capacity /\ call.ret \in BOOLEAN

(* The reference: the numeral of x. *)
Numeral(x) ==
  LET of[u \in Nat] ==
        IF u < 10 THEN <<u>> ELSE Append(of[u \div 10], u % 10)
  IN IF x < 0 THEN <<Minus>> \o of[-x] ELSE of[x]

Bytes0(n) == [i \in 1..n |-> mem[i - 1]]
Holds(s) == Len(s) <= Capacity + 1 /\ Bytes0(Len(s)) = s
HoldsString(s) == Holds(Append(s, Nul))

(* count_places is the length of the numeral on both sides of every power  *)
(* of ten, past the end of its table and for INTEGER_MIN, whose absolute   *)
(* value is not an intptr_t.                                               *)
PlacesExact ==
  call.fn # "strtoi" => count_places(call.num) = Len(Numeral(call.num))

(* A call of wtoa that does not return NULL leaves the numeral of its      *)
(* number as a C string, whatever the buffer held.  For INTEGER_MIN only   *)
(* the characters are there: common.h:177 copies no NUL.                   *)
WtoaExact ==
  call.fn = "wtoa" /\ call.ret =>
    IF call.num = INTEGER_MIN THEN Holds(Numeral(call.num))
    ELSE HoldsString(Numeral(call.num))

(* It changes no byte outside the buffer it was given. *)
Unchanged(i) == mem'[i] = mem[i]
WtoaInBounds ==
  call'.fn = "wtoa" => \A i \in Bytes : i >= call'.n => Unchanged(i)

(* itostr leaves the numeral when there is room for all of it; when not,   *)
(* the sign and the lowest digits.  INTEGER_MIN may come out as other      *)
(* characters (adv_string.c:70).                                           *)
Shortened(num, n) ==
  LET s == Numeral(IF num < 0 THEN -num ELSE num)
      k == IF Len(s) < n - 1 THEN Len(s) ELSE n - 1
  IN (IF num < 0 THEN <<Minus>> ELSE <<>>) \o SubSeq(s, Len(s) - k + 1, Len(s))
ItostrExact ==
  call.fn = "itostr" /\ call.ret /\ call.num # INTEGER_MIN =>
    HoldsString(Shortened(call.num, call.n))

(* itostr stays within its n bytes but for one case: the NUL of a negative *)
(* number whose digits fill all the room is stored behind the buffer       *)
(* (adv_string.c:76 does not count the sign).                              *)
ItostrInBounds ==
  call'.fn = "itostr" =>
    \A i \in Bytes : i >= call'.n =>
      \/ Unchanged(i)
      \/ /\ i = call'.n /\ mem'[i] = Nul
         /\ call'.num < 0 /\ Len(Numeral(call'.num)) >= call'.n

(* strtoi reads every numeral back, also that of INTEGER_MIN, where both   *)
(* the sum and the change of sign overflow.                                *)
ReadsBack ==
  call.fn = "strtoi" =>
    \A x \in Integer : Bytes0(call.n) = Numeral(x) => call.ret /\ value = x

(* The numeral in memory and the number of its places are right after      *)
(* every call, over whatever an earlier call left there.                   *)
TextExact == TypeOK /\ PlacesExact /\ WtoaExact /\ ItostrExact

(* No call writes behind the room it was given, but for the NUL of itostr. *)
InBounds == [][WtoaInBounds /\ ItostrInBounds]_vars
=============================================================================
