------------------------------- MODULE PrefixSums ------------------------------
(* What lies before each piece of something that is laid out in a row.       *)
EXTENDS Integers

(* The sums of the first k of n numbers, for every k.                        *)
Sums(f, n) ==
  LET sum[k \in 0 .. n] == IF k = 0 THEN 0 ELSE sum[k - 1] + f[k]
  IN  sum
===============================================================================
