------------------------------- MODULE MCLabs -------------------------------
(***************************************************************************)
(* The two programs of lab1 and lab2, which share nothing, on small        *)
(* instances: a behaviour runs one of them, the other is off.              *)
(***************************************************************************)
EXTENDS Fat12, Decimal, TLC

-----------------------------------------------------------------------------
(* Three data clusters; the root directory has three entries.  The second  *)
(* geometry has a root directory smaller than a cluster, the third one of  *)
(* two clusters: there cluster 5 is valid and lies behind the data.        *)

Geometries ==
    {[sectors |-> 5, before |-> 1, rootSectors |-> 1, perCluster |-> 1],
     [sectors |-> 8, before |-> 1, rootSectors |-> 1, perCluster |-> 2],
     [sectors |-> 6, before |-> 1, rootSectors |-> 2, perCluster |-> 1]}

EndMark == 8    \* ends a chain: 0xff8 in an entry of twelve bits

\* Every table, and some in which chains lead behind the data.
Tables(d) ==
    IF NClusters(d) <= 4
    THEN [2..4 -> {2, 3, 4, EndMark}]
    ELSE {[fat EXCEPT ![4] = 5] @@ (5 :> EndMark) : fat \in [2..4 -> {3, 5, EndMark}]}

File(name, first, sz) == [kind |-> "file", name |-> name, first |-> first, size |-> sz]
Dir(name, first) == [kind |-> "dir", name |-> name, first |-> first]
Deleted == [kind |-> "deleted"]
LongName == [kind |-> "long"]
Text(n) == [u \in 1..ClusterSize |-> [kind |-> "end", unit |-> <<n, u>>]]

Roots ==
    {<<Deleted, File(<<"a">>, 4, 3), Dir(<<"d">>, 2)>>,
     <<Dir(<<"d">>, 2), LongName, File(<<"a">>, 2, 4)>>,
     <<Dir(<<"d">>, 3), Zero, File(<<"a">>, 4, 1)>>}

SecondClusters ==
    {<<Dir(<<".">>, 2), Dir(<<"e">>, 3)>>,
     <<File(<<"a">>, 4, 1), Deleted>>,
     <<Zero, File(<<"a">>, 4, 1)>>}

ThirdClusters ==
    {<<File(<<"a">>, 4, 2), Dir(<<".", ".">>, 2)>>, Text(3)}

MCDisks ==
    UNION {{[sectors |-> g.sectors, before |-> g.before,
             rootSectors |-> g.rootSectors, perCluster |-> g.perCluster,
             fat |-> fat, root |-> r,
             contents |-> [n \in DOMAIN fat |-> CASE n = 2 -> second
                                                  [] n = 3 -> third
                                                  [] OTHER -> Text(n)]] :
                fat \in Tables(g), r \in Roots,
                second \in SecondClusters, third \in ThirdClusters} :
           g \in Geometries}

MCPaths ==
    {<<"/">>, <<"/", "a">>, <<"/", "a", "/">>, <<"/", "d">>, <<"/", "d", "/">>,
     <<"/", "d", "/", "a">>, <<"/", "d", "/", "e", "/", "a">>, <<"/", "/", "a">>,
     <<"/", "d", "/", "/", "a">>, <<"/", "d", "/", ".", "/", "e">>,
     <<"/", "d", "/", ".", "/">>, <<"a">>}

-----------------------------------------------------------------------------

ShellOff ==
    /\ disk = Nothing /\ at = "off" /\ stack = << >>
    /\ entry = Nothing /\ cluster = 0 /\ size = 0 /\ data = << >>
    /\ root = RootNode /\ command = "ls" /\ path = << >>
    /\ s = 0 /\ sep = 0 /\ file = RootNode
    /\ calls = << >> /\ buf = << >> /\ answer = << >> /\ message = ""

CalculatorOff ==
    /\ loop = "off"
    /\ a = << >> /\ aneg = FALSE /\ b = << >> /\ bneg = FALSE
    /\ c = << >> /\ cneg = FALSE /\ i = 0 /\ j = 0 /\ k = 0
    /\ printed = << >>

Init ==
    \/ Started /\ CalculatorOff
    \/ Entered /\ ShellOff

Next ==
    \/ Step /\ UNCHANGED calculator
    \/ Calculates /\ UNCHANGED vars

\* The shell reads the disk without waiting for anything.
Spec ==
    /\ Init /\ [][Next]_<<vars, calculator>>
    /\ WF_<<vars, calculator>>(Reads /\ UNCHANGED calculator)
=============================================================================
