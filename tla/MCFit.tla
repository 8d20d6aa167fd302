--------------------------------- MODULE MCFit ---------------------------------
(* Two cells, two directories, up to two iterations and an endless run.     *)
EXTENDS Fit

AllTests == {"datakey", "eeprom", "memory", "filesystem", "sd"}
WithCounters == {"datakey", "eeprom", "memory"}
Iterations == {-1, 0, 1, 2}
Environments ==
  {{}, {"io", "stuck", "ram", "mount", "file"}, {"stuck", "unlink"}}
OtherEnvironments == {{"shortFile"}}
Requests == {{}, {"init", "edit"}, {"default"}, {"load", "edit"}}
===============================================================================
