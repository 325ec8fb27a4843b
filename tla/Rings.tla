------------------------------- MODULE Rings -------------------------------
(***************************************************************************)
(* Ring buffers of the kernel: a buffer of P places and indices that count *)
(* modulo W, a multiple of P, as pipe.c's nread and nwrite and console.c's *)
(* r, w and e do (P is 512 or 128, W is 2^32).  The distances between such *)
(* indices, and a part of the ring as a sequence.                          *)
(***************************************************************************)
EXTENDS Integers, Sequences

IsRing(P, W) == P \in Nat \ {0} /\ W \in Nat /\ P < W /\ W % P = 0

\* d is such a buffer, of values in S.
IsBuffer(d, P, S) == P \in Nat \ {0} /\ d \in [0 .. P - 1 -> S]

\* n places of a ring d from index r on, as a sequence.
Slice(d, P, r, n) == [i \in 1 .. n |-> d[(r + i - 1) % P]]

IsSlice(s, d, P, r, n, S) ==
  s \in Seq(S) /\ Len(s) = n /\ \A i \in 1 .. n : s[i] = d[(r + i - 1) % P]

\* e is d with b put n places behind index r.
IsPut(e, d, P, r, n, b) == e = [d EXCEPT ![(r + n) % P] = b]

\* Sequences: u is s and then t; t is s without its last, or without its
\* first, which is x.
IsJoin(u, s, t) == u = s \o t
IsRest(t, s, x) == s # <<>> /\ Head(s) = x /\ t = Tail(s)
IsFront(t, s) == s # <<>> /\ t = SubSeq(s, 1, Len(s) - 1)

\* How far it is from index r to index w.
Dist(W, r, w) == (w + W - r) % W
=============================================================================
