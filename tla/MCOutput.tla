------------------------------ MODULE MCOutput ------------------------------
EXTENDS Output

(* A level that allows everything, and one that allows nothing. *)
AllOrNothing == {{}, Permission}
All == {Permission}

Every == ErrorHandlerKinds
Buffering == {"buffers"}
=============================================================================
