------------------------------ MODULE OwnerKey ------------------------------
(***************************************************************************)
(* internal/auth/auth.go OwnerKey: one string out of the three claims that *)
(* identify an owner.  The SDK's own task store keeps tasks apart by it.   *)
(* A text is a sequence of characters; a claim may hold any of them, the   *)
(* separators and digits included.                                         *)
(***************************************************************************)
EXTENDS Integers, Sequences

DigitOf == <<"0", "1", "2", "3", "4", "5", "6", "7", "8", "9">>

(* %d *)
Decimal[n \in Nat] ==
    IF n < 10 THEN <<DigitOf[n + 1]>>
    ELSE Append(Decimal[n \div 10], DigitOf[(n % 10) + 1])

(* Mutant: the length is left out. *)
FramedByColon(text) == <<":">> \o text

(* %d:%s *)
Framed(text) == Decimal[Len(text)] \o <<":">> \o text

KeyOf(id) ==
    Framed(id.issuer) \o <<"|">> \o Framed(id.tenant) \o <<"|">> \o Framed(id.subject)

=============================================================================
