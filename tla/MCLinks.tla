-------------------------------- MODULE MCLinks --------------------------------
(* Three children at a time, up to two frames of two pieces, three types of *)
(* module, two keys, and up to two iterations or an endless run.            *)
EXTENDS FitLinks

Iterations == {-1, 0, 1, 2}
Environments ==
  {{}, {"slow", "fork", "ioctl", "file"}, {"exec", "noreply", "slow", "stuck"},
   {"lost", "cable"}, {"slow", "lost", "corrupt", "open", "io", "file"}}
AllCommands ==
  {<<>>, <<"a", "z">>, <<"k">>, <<"t", "d">>, <<"k", "v", "a", "t">>, <<"h">>}
===============================================================================
