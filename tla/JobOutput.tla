------------------------------- MODULE JobOutput -------------------------------
(***************************************************************************)
(* _tail_file (ns_hpc/job_manager.py): the end of a job's output file, which *)
(* every result of a job carries.  A byte is part of a text, CR or LF.      *)
(***************************************************************************)
EXTENDS Integers, Sequences, FiniteSets, SequencesExt

Bytes == {"text", "CR", "LF"}

Least(a, b) == IF a < b THEN a ELSE b
Ending(s, n)  == SubSeq(s, Len(s) - Least(n, Len(s)) + 1, Len(s))

\* Where a line ends for str.splitlines, which takes CR LF for one end.
LineEnds(data) ==
    {i \in DOMAIN data : \/ i = Len(data) \/ data[i] = "LF"
                         \/ data[i] = "CR" /\ data[i + 1] # "LF"}

\* How many elements of S lie up to e, and the k-th of them.
Rank(S, e) == Cardinality({d \in S : d <= e})
Nth(S, k)  == CHOOSE e \in S : Rank(S, e) = k

Lines(data) == Cardinality(LineEnds(data))

\* Where the k-th line ends, and the next begins.
Bound(data, k) == IF k = 0 THEN 0 ELSE Nth(LineEnds(data), k)

\* The bytes that end the line data[from + 1 .. to].
Mark(data, from, to) ==
    IF data[to] = "LF" /\ to - 1 > from /\ data[to - 1] = "CR" THEN 2
    ELSE IF data[to] = "text" THEN 0 ELSE 1

Text(data, from, to) == SubSeq(data, from + 1, to - Mark(data, from, to))

SplitLines(data) == [k \in 1..Lines(data) |-> Text(data, Bound(data, k - 1), Bound(data, k))]

\* Fault: the window is at the beginning of the file.
FaultTailFile(data, n, maxBytes) ==
    Ending(SplitLines(SubSeq(data, 1, Least(maxBytes, Len(data)))), n)

\* The last n lines of what the window of max_bytes at the end of the file holds.
TailFile(data, n, maxBytes) == Ending(SplitLines(Ending(data, maxBytes)), n)

\* "Read the last n lines of a file, reading at most max_bytes" (job_manager.py:107): if
\* they are within max_bytes of the end, these are returned, wherever the window begins, in
\* a line or between CR and LF; otherwise no more than n, the last of which ends the file.
EndsTheFile(data, n, maxBytes) ==
    LET lines  == SplitLines(data)
        begin  == Bound(data, Len(lines) - Least(n, Len(lines)))
        result == TailFile(data, n, maxBytes)
    IN  IF Len(data) - begin <= maxBytes
        THEN result = Ending(lines, n)
        ELSE /\ Len(result) <= n
             /\ result # <<>> => IsSuffix(result[Len(result)], lines[Len(lines)])
==============================================================================
