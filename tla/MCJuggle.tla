------------------------------- MODULE MCJuggle -------------------------------
(***************************************************************************)
(* Small instances of Juggle for TLC.                                      *)
(***************************************************************************)
EXTENDS Juggle

\* What leads to some alarm data, and what is known of them.
Role(d) ==
  <<{v \in VCores : dtls[v] = d}, {v \in VCores : adata[v] = d}, {v \in VCores : d \in timers[v]},
    {v \in VCores : awaiter[v] = d}, d \in allocated, d \in armed>>

\* The states up to the names of the alarm data: one address is as good as another.
UpToNames ==
  LET roles == {Role(d) : d \in Data} IN
  <<vars, period, last_period, [r \in roles |-> Cardinality({d \in Data : Role(d) = r})]>>
============================================================================
