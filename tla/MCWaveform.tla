----------------------------- MODULE MCWaveform -----------------------------
(* An instance of Waveform: two one-bit signals of one group and a vector   *)
(* event in another.                                                        *)
EXTENDS Activity

MCDeclared ==
  <<[kind |-> [form |-> "bit", states |-> 2], event |-> FALSE],
    [kind |-> [form |-> "bit", states |-> 2], event |-> FALSE],
    [kind |-> [form |-> "bits", states |-> 4], event |-> TRUE]>>
=============================================================================
