---------------------------- MODULE CyclicSource ----------------------------
(***************************************************************************)
(* What a random-data source promises the code that draws from it.  While  *)
(* a buffer is installed, requests are served from its bytes in order,     *)
(* cyclically, each request going on where the one before it stopped.      *)
(* While none is installed they are served by the operating system.        *)
(*                                                                         *)
(* A byte is known by where it came from: its index in the installed       *)
(* buffer, or one of the two markers OsByte and ZeroByte.                  *)
(***************************************************************************)
EXTENDS Integers

CONSTANTS
  BufferSizes,    \* the sizes a caller installs, none of them 0
  RequestSizes    \* the numbers of bytes a caller asks for

VARIABLES
  size,           \* size of the installed buffer, 0 when there is none
  position,       \* index of the next byte to serve
  delivered       \* the answer to the last request

vars == <<size, position, delivered>>

OsByte == -1
ZeroByte == -2

(* The bytes of a request of len bytes served from index p of n bytes. *)
Cycle(p, n, len) == [k \in 0 .. len - 1 |-> (p + k) % n]

(* The operating system gives the first m bytes, the rest is zero. *)
SystemBytes(m, len) == [k \in 0 .. len - 1 |-> IF k < m THEN OsByte ELSE ZeroByte]

Init ==
  /\ size = 0
  /\ position = 0
  /\ delivered = SystemBytes(0, 0)

Install(n) ==
  /\ size' = n
  /\ position' = 0
  /\ UNCHANGED delivered

Withdraw ==
  /\ size' = 0
  /\ position' = 0
  /\ UNCHANGED delivered

Serve(len) ==
  /\ size # 0
  /\ delivered' = Cycle(position, size, len)
  /\ position' = (position + len) % size
  /\ UNCHANGED size

ServeSystem(len) ==
  /\ size = 0
  /\ \E m \in 0 .. len : delivered' = SystemBytes(m, len)
  /\ UNCHANGED <<size, position>>

Next ==
  \/ \E n \in BufferSizes : Install(n)
  \/ Withdraw
  \/ \E len \in RequestSizes : Serve(len) \/ ServeSystem(len)

Spec == Init /\ [][Next]_vars
=============================================================================
