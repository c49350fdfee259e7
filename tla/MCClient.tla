------------------------------ MODULE MCClient ------------------------------
(***************************************************************************)
(* A small instance of Client.  The second frame follows a wrap of the     *)
(* numbers, and a payload that is third in order has a body that looks     *)
(* like a header.  The stream is disturbed while nobody collects; while    *)
(* somebody does, frames are striped over both legs.                       *)
(***************************************************************************)
EXTENDS Client

MCMagic == <<1, 2>>

\* The first byte of a magic, a magic cut off by the next frame, and a magic
\* with a length no frame has.
MCNoise == {<<1>>, <<1, 2>>, <<1, 2, 9>>}

MCBound ==
  [m \in Mode |->
     IF m = "idle" THEN [sent |-> 3, frames |-> 3, air |-> 0, noise |-> 2, ends |-> 1]
                   ELSE [sent |-> 3, frames |-> 2, air |-> 2, noise |-> 0, ends |-> 0]]
=============================================================================
