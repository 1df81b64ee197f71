------------------------------ MODULE MCSpecFile ------------------------------
(***************************************************************************)
(* An instance of SpecFile for TLC: three scans, two of them with the same *)
(* number and under different headers, one with two detectors and one with *)
(* a spectrum of three lines, and a remark.                                *)
(***************************************************************************)
EXTENDS SpecFile

Point(row, spectra) == [row |-> row, spectra |-> spectra]
MCHeader(file, names) == [kind |-> "header", file |-> file, names |-> names]
MCRemark(text) == [kind |-> "remark", text |-> text]
MCScan(number, columns, positions, points, comment) ==
    [kind |-> "scan", number |-> number, columns |-> columns, positions |-> positions,
     points |-> points, comment |-> comment]

MCPlan == <<
    MCHeader("f1", <<"th">>),
    MCScan(1, 2, <<10>>, <<Point(<<11, 12>>, <<>>)>>, TRUE),
    MCScan(2, 1, <<20>>, <<Point(<<21>>, <<<<22, 23>>, <<24>>>>),
                           Point(<<25>>, <<<<26>>, <<28>>>>)>>, FALSE),
    MCRemark(1),
    MCHeader("f2", <<"tth">>),
    MCScan(1, 1, <<30>>, <<Point(<<31>>, <<<<32, 33, 34>>>>), Point(<<35>>, <<<<36>>>>)>>, FALSE)>>

\* The end of a line, except of an "E", "N", "P" or "C" line, and the middle of a
\* data line with several numbers.
MCStops(text) ==
    {p \in 1..Len(text) - 1 :
        \/ text[p] = NL /\ (p = 1 \/ text[p - 1].k \notin {"E", "N", "P", "C"})
        \/ text[p].k = "number" /\ text[p + 1].k = "number"}
================================================================================
