---------------------------- MODULE MCSerialConfig ----------------------------
(* Files shipped in src/conf, some made for the limits, and command lines.  *)
EXTENDS SerialConfig, TLC

MCNumber ==
  "1" :> 1 @@ "2" :> 2 @@ "5" :> 5 @@ "32" :> 32 @@ "49" :> 49 @@ "64" :> 64 @@ "128" :> 128
  @@ "200" :> 200 @@ "214" :> 214 @@ "256" :> 256 @@ "1250" :> 1250 @@ "2000" :> 2000
  @@ "3000" :> 3000 @@ "4000" :> 4000 @@ "19200" :> 19200 @@ "115200" :> 115200
  @@ "153600" :> 153600 @@ "614400" :> 614400

MCLetters ==
  "-F" :> <<"F">> @@ "-V" :> <<"V">> @@ "-I" :> <<"I">> @@ "-FV" :> <<"F", "V">>
  @@ "-I5" :> <<"I", "5">> @@ "-csp1" :> <<"c", "sp1">> @@ "-c" :> <<"c">> @@ "-b" :> <<"b">>
  @@ "-q" :> <<"q">>
  @@ "-af" :> <<"a", "f">> @@ "-y" :> <<"y">> @@ "-h" :> <<"h">>

MCMarked == {"#", "#sp1"}

Line(r, w, min, max, iter) == <<r, w, min, max, iter>>
AllCables(ports) ==
  FlattenSeq([i \in DOMAIN ports |->
                [j \in DOMAIN ports |-> Line(ports[i], ports[j], "1", "2", "1")]])

\* conf/atc-sp1, word by word; conf/sp3sxsp5s_sp5sxsp3s_sp8.
Atc == "atc-sp1" :>
  << <<"#", "Test", "async", "port", "with", "fixed", "49", "byte", "string;", "runs", "~10",
       "sec", "at", "115200", "baud.">>,
     <<"#", "Include", "'-a", "-b", "115200'", "arguments", "to", "get", "ATC", "test",
       "string", "and", "115200", "baud.">>,
     Line("sp1", "sp1", "49", "49", "1250") >>
Shipped == "sp3sxsp5s_sp5sxsp3s_sp8" :>
  << Line("sp5s", "sp3s", "1", "256", "1"), Line("sp3s", "sp5s", "1", "256", "1"),
     Line("sp8", "sp8", "1", "128", "1") >>
Made ==
  "sp1" :> << Line("sp1", "sp1", "1", "32", "1") >>
  @@ "sp1xsp2_sp2xsp1_sp3sxsp5s_sp8" :>
       << Line("sp1", "sp2", "1", "64", "1"), Line("sp2", "sp1", "1", "64", "1"),
          Line("sp5s", "sp3s", "1", "200", "1"), Line("sp8", "sp8", "1", "200", "1") >>
  @@ "all" :> AllCables(Async) \o AllCables(Sync)
  @@ "large" :> << Line("sp1", "sp2", "1", "3000", "1"), Line("sp4", "sp4", "2000", "3000", "2"),
                   Line("sp8s", "sp8s", "2", "214", "1") >>
  @@ "again" :> << <<"#", "both", "-q", "ways">>, Line("sp1", "sp2", "1", "32", "1"),
                   Line("#sp1", "sp1", "49", "49", "1"), Line("sp7", "sp7", "5", "5", "5"),
                   Line("sp1", "sp2", "2", "49", "5") >>
SmallFiles == Made
AtcFiles == Atc
ShippedFiles == Shipped

\* The loop of compactArgv swap by swap, which OnePass must agree with.
Swapped(v, i) == IF v[i] = Null THEN [v EXCEPT ![i] = v[i + 1], ![i + 1] = Null] ELSE v
ASSUME OnePassIsTheLoop ==
  \A n \in 0..4 : \A v \in [0..n + 1 -> {"sp1", "-q", Null}] :
    v[n] = Null => OnePass(v, n) = FoldLeft(Swapped, v, [k \in 1..n |-> k - 1])

\* Every order of some phrases.
Orders(phrases) == UNION {SetToSeqs(S) : S \in SUBSET phrases}
OfFit == {<<"-F">>, <<"-V">>, <<"-I", "5">>, <<"-FV">>, <<"-I5">>}
OneOfEach(some) == {<<p, <<"-c", f>>, q>> : p, q \in some, f \in DOMAIN Files}
Typed ==
  Orders({<<"-F">>, <<"-V">>, <<"-I", "5">>, <<"-q">>, <<"-c", "sp1">>})
  \cup Orders({<<"-FV">>, <<"-I5">>, <<"-c", "sp1">>, <<"-af">>})
  \cup OneOfEach({<<"-F">>, <<"-q">>, <<"-b", "153600">>, <<"-b", "19200">>, <<"-y", "5">>})
  \cup {<< <<"-c", "sp1">>, <<"-c", "again">> >>, << <<"-c", "large">>, <<"-c", "all">> >>,
        << <<"-csp1">>, <<"-F">> >>,
        << <<"-c", "missing">> >>, << <<"-h">> >>, << <<"all">> >>, << <<"-c">> >>, [i \in 1..20 |-> <<"-F">>]}
Plain == {<< <<"-c", f>> >> : f \in DOMAIN Files}
===============================================================================
