---------------------------- MODULE MCContextWindow ----------------------------
EXTENDS ContextWindow

Result(kind, size) == [kind |-> kind, size |-> size, kept |-> kind # "foreign"]

(* A small result; a slice of a source; two small results; an output that  *)
(* gives way to a slice; and a round that cannot be cut to fit.            *)
MCToolRounds ==
  {<<Result("output", 1)>>,
   <<Result("source", 3)>>,
   <<Result("output", 1), Result("notice", 1)>>,
   <<Result("output", 4), Result("source", 4)>>,
   <<Result("foreign", 4), Result("stored", 2)>>}
=============================================================================
