---------------------------- MODULE MCTranslation ----------------------------
(***************************************************************************)
(* Translation of small systems: a plain channel a, an array b of two      *)
(* broadcast channels, a channel c local to each process.  In some systems *)
(* names clash: a channel b_1 with b[1], a channel P_c with the local      *)
(* channel of P, a process T_i_1 with an instance of T, a channel with tau.*)
(***************************************************************************)
EXTENDS Translation

a == [name |-> <<"a">>, local |-> FALSE, bcast |-> FALSE, dims |-> <<>>]
b == [name |-> <<"b">>, local |-> FALSE, bcast |-> TRUE, dims |-> <<[lo |-> 1, hi |-> 2]>>]
c == [name |-> <<"c">>, local |-> TRUE, bcast |-> FALSE, dims |-> <<>>]

Lit(n) == [lit |-> n]
Var(x) == [var |-> x]
Range12(x) == [var |-> x, lo |-> 1, hi |-> 2]

Ref(d, ch, idx) == [dir |-> d, chan |-> ch, idx |-> idx, bcast |-> ch.bcast]

Plain(d, ch, idx) == [select |-> <<>>, sync |-> <<Ref(d, ch, idx)>>]
Tau == [select |-> <<>>, sync |-> <<>>]

\* The edges of the IO systems; the last one has an index out of bounds.
EmitA == Plain("!", a, <<>>)
RecvA == Plain("?", a, <<>>)
EmitB == Plain("!", b, <<Lit(1)>>)
SelectB == [select |-> <<Range12("k")>>, sync |-> <<Ref("?", b, <<Var("k")>>)>>]
EmitC == Plain("!", c, <<>>)
RecvC == Plain("?", c, <<>>)
Outside == Plain("!", b, <<Lit(3)>>)

IOEdges == {EmitA, RecvA, EmitB, SelectB, EmitC, RecvC, Tau, Outside}
UpTo2(E) == {<<>>} \cup {<<e>> : e \in E} \cup {<<e, f>> : e, f \in E}

Proc(n, E) == [name |-> <<n>>, unbound |-> <<>>, edges |-> E]

\* A process left with an unbound parameter.
ParamEdges(d) == <<Plain(d, b, <<Var("i")>>), Plain("!", a, <<>>)>>
Param(d) == [name |-> <<"T">>, unbound |-> <<Range12("i")>>, edges |-> ParamEdges(d)]

TwoProcs == {[procs |-> <<Proc("P", E), Proc("Q", F)>>, io |-> {}] :
               E \in UpTo2(IOEdges), F \in UpTo2({RecvA, EmitA, SelectB, RecvC})}

WithParam == {[procs |-> <<Proc("P", E), Param(d)>>, io |-> {}] :
                E \in UpTo2(IOEdges \ {Outside}), d \in {"!", "?"}}

\* Systems whose identifiers have underscores; those of a_x clash with nothing.
Chan(n) == [name |-> n, local |-> FALSE, bcast |-> FALSE, dims |-> <<>>]
B1(d) == Plain(d, Chan(<<"b", "1">>), <<>>)
RecvPC == Plain("?", Chan(<<"P", "c">>), <<>>)
EmitAX == Plain("!", Chan(<<"a", "x">>), <<>>)
Underscores ==
  {[procs |-> <<Proc("P", E), Proc("Q", F)>>, io |-> {}] :
     E \in UpTo2({EmitB, B1("!"), EmitC, RecvA, Tau}), F \in UpTo2({SelectB, B1("?"), RecvPC, EmitAX})}
  \cup {[procs |-> <<[Proc("T", <<EmitA, e>>) EXCEPT !.name = <<"T", "i", "1">>], Param("?")>>, io |-> {}] :
           e \in {RecvA, EmitB}}
  \cup {[procs |-> <<[Proc("T", <<e>>) EXCEPT !.name = <<"T", "i", "1">>],
                      [Param("?") EXCEPT !.edges = <<RecvC>>]>>, io |-> {}] : e \in {EmitC, RecvC}}

\* The plain channel a passed as a broadcast channel, and b as a plain one.
Passed(d, ch, idx) == [Plain(d, ch, idx) EXCEPT !.sync = <<[Ref(d, ch, idx) EXCEPT !.bcast = ~ch.bcast]>>]
Renamed ==
  {[procs |-> <<Proc("P", <<e>>), Proc("Q", <<f>>)>>, io |-> {}] :
     e \in {EmitA, EmitB, Passed("!", a, <<>>), Passed("!", b, <<Lit(1)>>)},
     f \in {RecvA, Passed("?", a, <<>>), Passed("?", b, <<Lit(1)>>)}}

IOSystems == TwoProcs \cup WithParam \cup Underscores \cup Renamed

\* CSP systems, with or without IO sections.
CspA == Plain("csp", a, <<>>)
CspB == Plain("csp", b, <<Lit(1)>>)
CspC == Plain("csp", c, <<>>)
CspTau == Plain("csp", Chan(TauEvent), <<>>)
CspEdges == {CspA, CspB, CspC}

Section(n, S) == [instance |-> <<n>>, csp |-> S]
SectionRefs == {{}, {Ref("csp", a, <<>>)}, {Ref("csp", b, <<Lit(1)>>)},
                {Ref("csp", a, <<>>), Ref("csp", b, <<Lit(1)>>)}}
CspSystems ==
  {[procs |-> <<Proc("P", E), Proc("Q", F), Proc("R", <<CspA>>)>>,
    io |-> {Section("P", S), Section("Q", T), Section("R", {Ref("csp", a, <<>>)})}] :
     E \in UpTo2(CspEdges), F \in UpTo2({CspA, CspB}), S \in SectionRefs, T \in SectionRefs}
  \cup {[procs |-> <<Proc("P", <<CspA>>)>>, io |-> {Section("P", {Ref("csp", b, <<Lit(0)>>)})}]}
  \cup {[procs |-> <<Proc("P", E), Proc("Q", <<CspTau, CspA>>)>>,
          io |-> {Section("P", {Ref("csp", Chan(TauEvent), <<>>)}), Section("Q", S)}] :
           E \in UpTo2({CspTau, CspA, Tau}), S \in {{}, {Ref("csp", Chan(TauEvent), <<>>)}}}
  \cup {[procs |-> <<Proc("P", <<CspB>>), Proc("Q", <<CspB>>)>>,
          io |-> {Section("P", {r}), Section("Q", {s})}] :
           r \in {Ref("csp", Chan(<<"b", "1">>), <<>>), Ref("csp", b, <<Lit(1)>>)},
           s \in {Ref("csp", Chan(<<"b", "1">>), <<>>), Ref("csp", b, <<Lit(1)>>)}}

AllSystems == IOSystems \cup CspSystems

SmallProcessLabels == {<<"P">>, <<"Q">>, <<"R">>, <<"T", "i", "1">>, <<"T", "i", "2">>}
SmallChannelLabels ==
  {<<"a">>, <<"c">>, <<"tau">>, <<"a", "x">>, <<"b", "1">>, <<"b", "2">>}
  \cup {P \o <<"c">> : P \in SmallProcessLabels}
StuckLabel == <<"Stuck">>
=============================================================================
