-------------------------------- MODULE Fees --------------------------------
(***************************************************************************)
(* The price arithmetic of src/LidoraClient/Lidora/Utils/Extension.swift   *)
(* (roundNumber, percentage, Double.serviceFee), in integer cents.         *)
(*                                                                         *)
(* The code computes in binary floating point and rounds to cents after    *)
(* every step.  Away from a tie the result is the nearest cent; at a tie   *)
(* (a subtotal of $5.00, $15.00, ... for Stripe's fee, of any amount that  *)
(* ends in 5 cents for the platform's) the binary value lies a little      *)
(* above or below, so either cent can come out.  A fee is therefore a set  *)
(* of one or two amounts.                                                  *)
(***************************************************************************)
EXTENDS Integers

\* round(value * 100) / 100, of the fraction n/d of a cent.
Rounded(n, d) ==
    {r \in {n \div d, n \div d + 1} : 2 * n <= d * (2 * r + 1) /\ d * (2 * r - 1) <= 2 * n}

\* 2.9 % and 30 cents; 10 %.
StripeFee(subtotal) == Rounded(29 * subtotal + 30000, 1000)
PlatformFee(subtotal) == Rounded(subtotal, 10)
DeliveryFee == 30

\* What Double.serviceFee() returns for an amount.
ServiceFee(subtotal) ==
    {[subtotal |-> subtotal, stripeFee |-> s, platformFee |-> p, serviceFee |-> s + p,
      deliveryFee |-> DeliveryFee, total |-> subtotal + s + p + DeliveryFee] :
        s \in StripeFee(subtotal), p \in PlatformFee(subtotal)}
=============================================================================
