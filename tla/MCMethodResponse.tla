-------------------------- MODULE MCMethodResponse --------------------------
(* The instances of MethodResponse in which methods do what the code does  *)
(* not withstand.                                                          *)
EXTENDS MethodResponse

\* Methods that respond more than a chunk, that fail, or, atomic ones, that respond nothing.
Unkempt == {{"big"}, {"fail"}, {"silent"}}

=============================================================================
