---------------------------- MODULE MCEepromHeader ----------------------------
EXTENDS EepromHeader

\* The letters of eeprom: -i, -d, -l, -e and -s.
MCRequests == {{"init", "edit"}, {"init", "default", "edit", "save"}, {"load", "edit"}}

\* A number that passes for a version, and the size of the device, which leaves a byte 0.
MCTyped == {16, 1024}
MCPortsTyped == {"sp1s"}

\* October, a day that its month does not have, and a location that is not on the menu.
MCModuleAnswers ==
  {[location |-> 6, year |-> 1, mon |-> 16, day |-> 1, type |-> 2],
   [location |-> 0, year |-> 2016, mon |-> 4, day |-> 49, type |-> 4],
   [location |-> 7, year |-> 1, mon |-> 1, day |-> 1, type |-> 2]}
MCEthAnswers ==
  {[type |-> 9, addr |-> 1, interface |-> 5]}
MCPortAnswers ==
  {[id |-> 14, mode |-> 4, speed |-> 1201]}
MCCuts == {"expbus"}
===============================================================================
