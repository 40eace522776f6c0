------------------------------ MODULE MCOutputs ------------------------------
(* Instances of Outputs for TLC: every place and every format, alone and   *)
(* beside one another, and batches of one or two events, good, hidden or   *)
(* cut off after a good one.                                               *)
EXTENDS Outputs

To(at, ext) == [at |-> at, ext |-> ext]
From(at, ext, seekable) == [at |-> at, ext |-> ext, seekable |-> seekable]

RunLists ==
  {<< >>,
   << To("std", <<"log">>), To("file", <<"json">>), To("std", << >>) >>,
   << To("file", <<"html">>), To("discard", << >>) >>,
   << To("pattern", <<"html">>), To("file", <<"dump">>) >>,
   << To("pattern", <<"ez">>), To("file", <<"logfmt">>) >>,
   << To("file", <<"ez", "tlog">>), To("std", <<"html">>), To("pattern", <<"json">>) >>,
   << To("file", <<"html", "log">>), To("pattern", <<"tlz">>), To("file", <<"ez", "bad">>) >>,
   << To("file", <<"tlog">>), To("socket", << >>), To("unknown", << >>) >>}

RunSources ==
  {From("std", <<"tlog", "ez">>, FALSE), From("file", <<"ez">>, TRUE),
   From("file", <<"tlz">>, FALSE), From("pipe", << >>, FALSE),
   From("file", <<"log">>, TRUE), From("unknown", << >>, TRUE)}

Event(form, ls, hide) == [form |-> form, ls |-> ls, hide |-> hide]
Good(ls) == Event("good", ls, FALSE)
RunBatches ==
  {<< Good(1) >>, << Good(2), Event("good", 1, TRUE) >>, << Event("good", 2, TRUE), Good(1) >>,
   << Good(0), Good(1) >>, << Good(2), Event("nokey", 1, FALSE) >>,
   << Good(1), Event("half", 1, FALSE) >>, << Good(1), Event("nomap", 0, FALSE) >>,
   << Event("hidden", 1, FALSE) >>}
=============================================================================
