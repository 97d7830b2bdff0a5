--------------------------- MODULE RecordWriteProofs ---------------------------
(* Proofs about RecordWrite, for any processes, loads, saves and blocks.    *)
EXTENDS RecordWrite, TLAPS

USE RecordAssumption

LEMMA SaveTypes ==
    ASSUME TypeOK
    PROVE  /\ \A p \in Processes : count[p] \in Nat /\ at[p] \in Nat
           /\ \A s \in Saves : s[1] \in Processes /\ s[2] \in 1..MaxSaves /\ size[s] \in Nat
           /\ \A p \in Processes : count[p] > 0 => Current(p) \in Saves /\ Begun(Current(p))
           /\ \A p \in Processes : count[p] < MaxSaves =>
                  <<p, count[p] + 1>> \in Saves /\ ~Begun(<<p, count[p] + 1>>)
  BY DEF TypeOK, Saves, Current, Begun

LEMMA BlankType == Blank \in [1..Blocks -> File]
  BY DEF Blank, File

\* A settled file stays settled while nobody writes it and the name .tmp is not given to it.
LEMMA SettledFrame ==
    ASSUME TypeOK, NEW f \in File, Settled(f), f # NoFile => f # tmp',
           f # NoFile => data'[f] = data[f],
           \A s \in Saves : Begun(s) => Begun(s)' /\ size'[s] = size[s]
    PROVE  Settled(f)'
  <1> SUFFICES ASSUME f # NoFile PROVE f # tmp' /\ Begun(f)' /\ Whole(f)'
    BY DEF Settled
  <1>1. f \in Saves /\ Begun(f) /\ Whole(f)
    BY DEF Settled, File
  <1>2. PICK s \in Saves : Begun(s) /\ size[s] > 0 /\ data[f] = Text(s)
    BY <1>1 DEF Whole
  <1>3. Begun(s)' /\ size'[s] > 0 /\ data'[f] = Text(s)'
    BY <1>2 DEF Text
  <1> QED BY <1>1, <1>3 DEF Whole

\* What the loads have seen stays so while settled files do.
LEMMA LoadsFrame ==
    ASSUME TypeOK, LoadsOK, UNCHANGED loads,
           \A g \in File : Settled(g) => Settled(g)' /\ (g # NoFile => data'[g] = data[g])
    PROVE  LoadsOK'
  <1>o. load' = load /\ from' = from /\ read' = read /\ seen' = seen
    BY DEF loads
  <1> SUFFICES ASSUME NEW l \in Loads
               PROVE  /\ load[l] = "new" => from[l] = NoFile
                      /\ Settled(from[l])'
                      /\ from[l] = NoFile => read[l] = 0
                      /\ \A b \in 1..Blocks :
                             seen[l][b] = IF b <= read[l] THEN data'[from[l]][b] ELSE NoFile
                      /\ load[l] = "done" /\ from[l] # NoFile => EndsAt(from[l], read[l])'
    BY <1>o DEF LoadsOK, EndsAt, Settled, Whole, Begun
  <1>1. from[l] \in File /\ Settled(from[l]) /\ read[l] \in Nat
    BY DEF LoadsOK, TypeOK
  <1>2. Settled(from[l])' /\ (from[l] # NoFile => data'[from[l]] = data[from[l]])
    BY <1>1, <1>o DEF Settled, Whole
  <1>3. /\ load[l] = "new" => from[l] = NoFile
        /\ from[l] = NoFile => read[l] = 0
        /\ \A b \in 1..Blocks :
               seen[l][b] = IF b <= read[l] THEN data[from[l]][b] ELSE NoFile
        /\ load[l] = "done" /\ from[l] # NoFile => EndsAt(from[l], read[l])
    BY DEF LoadsOK
  <1>4. load[l] = "done" /\ from[l] # NoFile => EndsAt(from[l], read[l])'
    BY <1>2, <1>3, <1>o DEF EndsAt
  <1>5. \A b \in 1..Blocks :
           seen[l][b] = IF b <= read[l] THEN data'[from[l]][b] ELSE NoFile
    BY <1>1, <1>2, <1>3
  <1> QED BY <1>2, <1>3, <1>4, <1>5

LEMMA InitIInv == Init => IInv
  <1> SUFFICES ASSUME Init PROVE IInv
    OBVIOUS
  <1>1. TypeOK
    <2>1. tmp \in File /\ state \in File /\ data \in [Saves -> [1..Blocks -> File]]
      BY BlankType DEF Init, File
    <2>2. /\ count \in [Processes -> 0..MaxSaves] /\ at \in [Processes -> 0..Blocks]
          /\ pc \in [Processes -> {"idle", "write", "replace"}]
          /\ fd \in [Processes -> File] /\ size \in [Saves -> 0..Blocks]
      BY DEF Init, File
    <2>3. /\ load \in [Loads -> {"new", "reading", "done"}] /\ from \in [Loads -> File]
          /\ read \in [Loads -> 0..Blocks] /\ seen \in [Loads -> [1..Blocks -> File]]
      BY BlankType DEF Init, File
    <2> QED BY <2>1, <2>2, <2>3 DEF TypeOK, Init
  <1>2. Alone
    BY DEF Init, Alone, Settled, WriterOK, LoadsOK, Busy, Blank
  <1>3. ProgressOK
    BY DEF Init, ProgressOK, Busy
  <1> QED BY <1>1, <1>2, <1>3 DEF IInv

------------------------------------------------------------------------------
LEMMA OpenIInv ==
    ASSUME IInv, NEW p \in Processes, NEW n \in 1..Blocks, Open(p, n)
    PROVE  IInv'
  <1>t. TypeOK
    BY DEF IInv
  <1> PICK s : s = <<p, count[p] + 1>>
    OBVIOUS
  <1> PICK f : f = IF tmp = NoFile THEN s ELSE tmp
    OBVIOUS
  <1>s. s \in Saves /\ ~Begun(s) /\ f \in Saves /\ f # NoFile
    BY <1>t, SaveTypes DEF Open, TypeOK, File
  <1>o. /\ pc[p] = "idle" /\ count[p] < MaxSaves
        /\ tmp' = f /\ data' = [data EXCEPT ![f] = Blank]
        /\ fd' = [fd EXCEPT ![p] = f] /\ size' = [size EXCEPT ![s] = n]
        /\ count' = [count EXCEPT ![p] = @ + 1]
        /\ pc' = [pc EXCEPT ![p] = "write"] /\ at' = [at EXCEPT ![p] = 0]
        /\ overlap' = (overlap \/ \E q \in Processes : pc[q] # "idle")
        /\ UNCHANGED <<state, failed, load, from, read, seen>>
    BY DEF Open, loads
  <1>1. TypeOK'
    <2>1. tmp' \in File /\ state' \in File /\ data' \in [Saves -> [1..Blocks -> File]]
      BY <1>t, <1>s, <1>o, BlankType DEF TypeOK, File
    <2>2. /\ count' \in [Processes -> 0..MaxSaves]
          /\ pc' \in [Processes -> {"idle", "write", "replace"}]
          /\ fd' \in [Processes -> File] /\ at' \in [Processes -> 0..Blocks]
          /\ size' \in [Saves -> 0..Blocks]
      BY <1>t, <1>s, <1>o DEF TypeOK, File
    <2>3. /\ load' \in [Loads -> {"new", "reading", "done"}]
          /\ from' \in [Loads -> File] /\ read' \in [Loads -> 0..Blocks]
          /\ seen' \in [Loads -> [1..Blocks -> File]] /\ failed' \subseteq Saves
          /\ overlap' \in BOOLEAN
      BY <1>t, <1>o DEF TypeOK
    <2> QED BY <2>1, <2>2, <2>3 DEF TypeOK
  <1>2. ASSUME ~overlap' PROVE Alone'
    <2>1. ~overlap /\ Alone /\ \A q \in Processes : pc[q] = "idle"
      BY <1>2, <1>o, <1>t DEF TypeOK, IInv
    <2>2. \A r \in Saves : Begun(r) => Begun(r)' /\ size'[r] = size[r]
      BY <1>t, <1>s, <1>o, SaveTypes DEF Begun, TypeOK
    <2>3. Begun(s)' /\ (tmp # NoFile => Begun(tmp))
      BY <2>1, <1>t, <1>o DEF Begun, TypeOK, Alone
    <2>4. Begun(f)'
      BY <2>2, <2>3, <1>s
    <2>5. \A g \in File : Settled(g) => Settled(g)' /\ (g # NoFile => data'[g] = data[g])
      <3> SUFFICES ASSUME NEW g \in File, Settled(g)
                   PROVE  Settled(g)' /\ (g # NoFile => data'[g] = data[g])
        OBVIOUS
      <3>1. g # f
        BY <1>s, <2>1 DEF Settled, Alone
      <3>2. g # NoFile => data'[g] = data[g]
        BY <3>1, <1>o, <1>t DEF TypeOK, File
      <3> QED BY <3>1, <3>2, <2>2, <1>o, <1>t, SettledFrame
    <2>6. Settled(state)' 
      BY <2>5, <2>1, <1>t, <1>o DEF Alone, TypeOK, Settled
    <2>7. WriterOK'
      <3>1. \A q \in Processes : pc'[q] # "idle" => q = p
        BY <2>1, <1>o, <1>t DEF TypeOK
      <3>2. Current(p)' = s /\ size'[s] = n /\ count'[p] > 0
        BY <1>o, <1>t, <1>s DEF TypeOK, Current
      <3>3. data'[tmp'] = Blank
        BY <1>o, <1>t, <1>s DEF TypeOK
      <3>4. /\ pc'[p] = "write" /\ at'[p] = 0 /\ tmp' # NoFile /\ fd'[p] = tmp'
        BY <1>o, <1>t, <1>s DEF TypeOK
      <3>5. data'[tmp'] = [b \in 1..Blocks |-> IF b <= at'[p] THEN Current(p)' ELSE NoFile]
        BY <3>3, <3>4 DEF Blank
      <3> QED BY <3>1, <3>2, <3>4, <3>5 DEF WriterOK, Busy
    <2>8. LoadsOK'
      BY <2>1, <2>5, <1>o, <1>t, LoadsFrame DEF Alone, loads
    <2>9. Begun(tmp)'
      BY <2>4, <1>o DEF Begun
    <2>10. failed' = {}
      BY <2>1, <1>o DEF Alone
    <2> QED BY <2>6, <2>7, <2>8, <2>9, <2>10 DEF Alone
  <1>3. ProgressOK'
    <2> SUFFICES ASSUME NEW q \in Processes, Busy(q)'
                 PROVE  (/\ count[q] > 0 /\ size[Current(q)] > 0 /\ fd[q] # NoFile
                         /\ pc[q] = "write" => at[q] < size[Current(q)]
                         /\ pc[q] = "replace" => at[q] = size[Current(q)])'
      BY <1>o DEF ProgressOK, IInv
    <2>1. CASE q = p
      BY <2>1, <1>s, <1>o, <1>t DEF TypeOK, Current
    <2>2. CASE q # p
      <3>1. /\ Busy(q) /\ count'[q] = count[q] /\ pc'[q] = pc[q]
            /\ at'[q] = at[q] /\ fd'[q] = fd[q]
        BY <2>2, <1>o, <1>t DEF TypeOK, Busy
      <3>2. Current(q)' = Current(q) /\ Current(q) # s /\ Current(q) \in Saves
        BY <2>2, <3>1, <1>t, SaveTypes DEF Current, IInv, ProgressOK
      <3>3. size'[Current(q)] = size[Current(q)]
        BY <3>2, <1>o, <1>t DEF TypeOK
      <3> QED BY <3>1, <3>2, <3>3 DEF IInv, ProgressOK
    <2> QED BY <2>1, <2>2
  <1> QED BY <1>1, <1>2, <1>3 DEF IInv

\* A process inside _save_job, and where it is when it is the only one.
LEMMA InSave ==
    ASSUME IInv, NEW p \in Processes, pc[p] # "idle"
    PROVE  /\ count[p] > 0 /\ Current(p) \in Saves /\ Begun(Current(p))
           /\ size[Current(p)] \in 1..Blocks /\ at[p] \in Nat /\ fd[p] \in Saves
           /\ pc[p] = "write" => at[p] < size[Current(p)]
           /\ pc[p] = "replace" => at[p] = size[Current(p)]
           /\ ~overlap =>
                  /\ \A q \in Processes : pc[q] # "idle" => q = p
                  /\ tmp \in Saves /\ tmp # NoFile /\ fd[p] = tmp /\ Begun(tmp)
                  /\ data[tmp] = [b \in 1..Blocks |-> IF b <= at[p] THEN Current(p) ELSE NoFile]
  <1>1. TypeOK /\ ProgressOK /\ (~overlap => Alone) /\ Busy(p)
    BY DEF IInv, Busy
  <1>2. /\ count[p] > 0 /\ size[Current(p)] > 0 /\ fd[p] # NoFile
        /\ pc[p] = "write" => at[p] < size[Current(p)]
        /\ pc[p] = "replace" => at[p] = size[Current(p)]
    BY <1>1 DEF ProgressOK
  <1>3. Current(p) \in Saves /\ Begun(Current(p))
    BY <1>1, <1>2, SaveTypes
  <1>4. size[Current(p)] \in 1..Blocks /\ at[p] \in Nat /\ fd[p] \in Saves
    BY <1>1, <1>2, <1>3 DEF TypeOK, File
  <1>5. ASSUME ~overlap
        PROVE  /\ \A q \in Processes : pc[q] # "idle" => q = p
               /\ tmp \in Saves /\ tmp # NoFile /\ fd[p] = tmp /\ Begun(tmp)
               /\ data[tmp] = [b \in 1..Blocks |-> IF b <= at[p] THEN Current(p) ELSE NoFile]
    BY <1>1, <1>4, <1>5 DEF Alone, WriterOK, Busy
  <1> QED BY <1>2, <1>3, <1>4, <1>5

LEMMA WriteIInv ==
    ASSUME IInv, NEW p \in Processes, Write(p)
    PROVE  IInv'
  <1>t. TypeOK
    BY DEF IInv
  <1> PICK s : s = Current(p)
    OBVIOUS
  <1> PICK n : n = at[p] + 1
    OBVIOUS
  <1>o. /\ pc[p] = "write"
        /\ data' = [data EXCEPT ![fd[p]] = [@ EXCEPT ![n] = s]]
        /\ at' = [at EXCEPT ![p] = n]
        /\ pc' = [pc EXCEPT ![p] = IF n = size[s] THEN "replace" ELSE "write"]
        /\ UNCHANGED <<tmp, state, count, fd, size, failed, overlap, load, from, read, seen>>
    BY DEF Write, loads
  <1>s. /\ s \in Saves /\ Begun(s) /\ fd[p] \in Saves /\ size[s] \in 1..Blocks
        /\ n \in 1..Blocks /\ n <= size[s] /\ Current(p)' = s
    <2>1. /\ s \in Saves /\ Begun(s) /\ fd[p] \in Saves /\ size[s] \in 1..Blocks
          /\ at[p] \in Nat /\ at[p] < size[s]
      BY <1>o, InSave
    <2>2. Current(p)' = s
      BY <1>o DEF Current
    <2> QED BY <2>1, <2>2
  <1>1. TypeOK'
    <2>1. data' \in [Saves -> [1..Blocks -> File]]
      <3>1. data[fd[p]] \in [1..Blocks -> File]
        BY <1>t, <1>s DEF TypeOK
      <3>2. [data[fd[p]] EXCEPT ![n] = s] \in [1..Blocks -> File]
        BY <3>1, <1>s DEF File
      <3> QED BY <3>2, <1>o, <1>t DEF TypeOK
    <2>2. at' \in [Processes -> 0..Blocks] /\ pc' \in [Processes -> {"idle", "write", "replace"}]
      BY <1>o, <1>s, <1>t DEF TypeOK
    <2> QED BY <2>1, <2>2, <1>o, <1>t DEF TypeOK
  <1>2. ASSUME ~overlap' PROVE Alone'
    <2>1. ~overlap /\ Alone
      BY <1>2, <1>o DEF IInv
    <2>2. /\ \A q \in Processes : pc[q] # "idle" => q = p
          /\ tmp \in Saves /\ tmp # NoFile /\ fd[p] = tmp
          /\ data[tmp] = [b \in 1..Blocks |-> IF b <= at[p] THEN s ELSE NoFile]
      BY <2>1, <1>o, InSave
    <2>3. \A g \in File : Settled(g) => Settled(g)' /\ (g # NoFile => data'[g] = data[g])
      <3> SUFFICES ASSUME NEW g \in File, Settled(g)
                   PROVE  Settled(g)' /\ (g # NoFile => data'[g] = data[g])
        OBVIOUS
      <3>1. g # NoFile => data'[g] = data[g]
        BY <2>2, <1>o, <1>t DEF Settled, File, TypeOK
      <3>2. \A r \in Saves : Begun(r) => Begun(r)' /\ size'[r] = size[r]
        BY <1>o DEF Begun
      <3> QED BY <3>1, <3>2, <1>o, <1>t, SettledFrame DEF Settled
    <2>4. Settled(state)'
      BY <2>3, <2>1, <1>t, <1>o DEF Alone, TypeOK, Settled
    <2>5. LoadsOK'
      BY <2>1, <2>3, <1>o, <1>t, LoadsFrame DEF Alone, loads
    <2>6. data'[tmp] = [b \in 1..Blocks |-> IF b <= n THEN s ELSE NoFile]
      <3>1. data'[tmp] = [data[tmp] EXCEPT ![n] = s]
        BY <2>2, <1>o, <1>t DEF TypeOK
      <3>2. at[p] \in Nat /\ n = at[p] + 1
        BY <1>t DEF TypeOK
      <3> QED BY <3>1, <3>2, <2>2, <1>s
    <2>7. WriterOK'
      <3>1. \A q \in Processes : pc'[q] # "idle" => q = p
        BY <2>2, <1>o, <1>t DEF TypeOK
      <3>2. tmp' # NoFile /\ fd'[p] = tmp' /\ at'[p] = n
        BY <2>2, <1>o, <1>t DEF TypeOK
      <3>3. data'[tmp'] = [b \in 1..Blocks |-> IF b <= at'[p] THEN Current(p)' ELSE NoFile]
        BY <2>6, <3>2, <1>o, <1>s
      <3> QED BY <3>1, <3>2, <3>3 DEF WriterOK, Busy
    <2>8. (tmp # NoFile => Begun(tmp))' /\ failed' = {}
      BY <2>1, <1>o DEF Alone, Begun
    <2> QED BY <2>4, <2>5, <2>7, <2>8 DEF Alone
  <1>3. ProgressOK'
    <2> SUFFICES ASSUME NEW q \in Processes, Busy(q)'
                 PROVE  (/\ count[q] > 0 /\ size[Current(q)] > 0 /\ fd[q] # NoFile
                         /\ pc[q] = "write" => at[q] < size[Current(q)]
                         /\ pc[q] = "replace" => at[q] = size[Current(q)])'
      BY <1>o DEF ProgressOK, IInv
    <2>1. CASE q = p
      <3>1. count[p] > 0 /\ fd[p] # NoFile
        BY <1>o DEF IInv, ProgressOK, Busy
      <3> QED BY <2>1, <3>1, <1>s, <1>o, <1>t DEF TypeOK
    <2>2. CASE q # p
      <3>1. Busy(q) /\ pc'[q] = pc[q] /\ at'[q] = at[q] /\ Current(q)' = Current(q)
        BY <2>2, <1>o, <1>t DEF TypeOK, Busy, Current
      <3> QED BY <3>1, <1>o DEF IInv, ProgressOK
    <2> QED BY <2>1, <2>2
  <1> QED BY <1>1, <1>2, <1>3 DEF IInv

LEMMA ReplaceIInv ==
    ASSUME IInv, NEW p \in Processes, Replace(p)
    PROVE  IInv'
  <1>t. TypeOK
    BY DEF IInv
  <1>o. /\ pc[p] = "replace" /\ tmp # NoFile /\ state' = tmp /\ tmp' = NoFile
        /\ pc' = [pc EXCEPT ![p] = "idle"]
        /\ UNCHANGED <<data, count, fd, at, size, failed, overlap, load, from, read, seen>>
    BY DEF Replace, loads
  <1>1. TypeOK'
    BY <1>o, <1>t DEF TypeOK, File
  <1>2. ASSUME ~overlap' PROVE Alone'
    <2>1. ~overlap /\ Alone
      BY <1>2, <1>o DEF IInv
    <2> PICK s : s = Current(p)
      OBVIOUS
    <2> PICK f : f = tmp
      OBVIOUS
    <2>2. /\ \A q \in Processes : pc[q] # "idle" => q = p
          /\ s \in Saves /\ Begun(s) /\ size[s] > 0 /\ at[p] = size[s] /\ f \in Saves /\ Begun(f)
          /\ data[f] = [b \in 1..Blocks |-> IF b <= at[p] THEN s ELSE NoFile]
      BY <2>1, <1>o, InSave
    <2>3. data[f] = Text(s)
      BY <2>2 DEF Text
    <2>4. Begun(f)' /\ Begun(s)' /\ data'[f] = Text(s)' /\ size'[s] > 0
      BY <2>2, <2>3, <1>o DEF Begun, Text
    <2>5. Settled(f)'
      BY <2>2, <2>4, <1>o DEF Settled, Whole
    <2>6. Settled(state)'
      BY <2>5, <1>o DEF Settled, Whole, Begun
    <2>7. \A g \in File : Settled(g) => Settled(g)' /\ (g # NoFile => data'[g] = data[g])
      <3> SUFFICES ASSUME NEW g \in File, Settled(g)
                   PROVE  Settled(g)' /\ (g # NoFile => data'[g] = data[g])
        OBVIOUS
      <3>1. \A r \in Saves : Begun(r) => Begun(r)' /\ size'[r] = size[r]
        BY <1>o DEF Begun
      <3> QED BY <3>1, <1>o, <1>t, SettledFrame
    <2>8. LoadsOK'
      BY <2>1, <2>7, <1>o, <1>t, LoadsFrame DEF Alone, loads
    <2>9. WriterOK'
      BY <2>2, <1>o, <1>t DEF WriterOK, Busy, TypeOK
    <2>10. (tmp # NoFile => Begun(tmp))' /\ failed' = {}
      BY <2>1, <1>o DEF Alone
    <2> QED BY <2>6, <2>8, <2>9, <2>10 DEF Alone
  <1>3. ProgressOK'
    BY <1>o, <1>t DEF IInv, ProgressOK, Busy, Current, TypeOK
  <1> QED BY <1>1, <1>2, <1>3 DEF IInv

\* Neither a failed rename nor a death touches a file.
LEMMA LeaveIInv ==
    ASSUME IInv, NEW p \in Processes, ReplaceFails(p) \/ Crash(p)
    PROVE  IInv'
  <1>t. TypeOK
    BY DEF IInv
  <1>o. /\ pc[p] # "idle" /\ pc' = [pc EXCEPT ![p] = "idle"]
        /\ failed' = failed \/ (tmp = NoFile /\ failed' = failed \cup {Current(p)})
        /\ UNCHANGED <<tmp, state, data, count, fd, at, size, overlap, load, from, read, seen>>
    BY DEF ReplaceFails, Crash, loads, files
  <1>s. Current(p) \in Saves /\ (~overlap => tmp # NoFile /\ \A q \in Processes : pc[q] # "idle" => q = p)
    BY <1>o, InSave
  <1>1. TypeOK'
    BY <1>o, <1>s, <1>t DEF TypeOK
  <1>2. ASSUME ~overlap' PROVE Alone'
    <2>1. ~overlap /\ Alone
      BY <1>2, <1>o DEF IInv
    <2>2. WriterOK'
      BY <2>1, <1>s, <1>o, <1>t DEF WriterOK, Busy, TypeOK
    <2>3. Settled(state)'
      BY <2>1, <1>o DEF Alone, Settled, Whole, Begun, Text
    <2>4. \A g \in File : Settled(g) => Settled(g)'
      BY <1>o DEF Settled, Whole, Begun, Text
    <2>5. LoadsOK'
      BY <2>1, <2>4, <1>o, <1>t, LoadsFrame DEF Alone, loads
    <2>6. (tmp # NoFile => Begun(tmp))' /\ failed' = {}
      BY <2>1, <1>o, <1>s DEF Alone, Begun
    <2> QED BY <2>2, <2>3, <2>5, <2>6 DEF Alone
  <1>3. ProgressOK'
    BY <1>o, <1>t DEF IInv, ProgressOK, Busy, Current, TypeOK
  <1> QED BY <1>1, <1>2, <1>3 DEF IInv

\* A load changes nothing that a save looks at.
LEMMA LoadFrame ==
    ASSUME IInv, UNCHANGED <<files, saves>>, TypeOK', ~overlap => LoadsOK',
           \A l \in Loads : load'[l] = "reading" => from'[l] # NoFile
    PROVE  IInv'
  <1>o. UNCHANGED <<tmp, state, data, count, pc, fd, at, size, failed, overlap>>
    BY DEF files, saves
  <1>1. ProgressOK'
    BY <1>o DEF IInv, ProgressOK, Busy, Current
  <1>2. ASSUME ~overlap' PROVE Alone'
    <2>1. Alone
      BY <1>2, <1>o DEF IInv
    <2>2. Settled(state)'
      BY <2>1, <1>o DEF Alone, Settled, Whole, Begun, Text
    <2>3. WriterOK'
      BY <2>1, <1>o DEF Alone, WriterOK, Busy, Current
    <2> QED BY <2>1, <2>2, <2>3, <1>2, <1>o DEF Alone, Begun
  <1> QED BY <1>1, <1>2 DEF IInv

LEMMA LoadOpenIInv ==
    ASSUME IInv, NEW l \in Loads, LoadOpen(l)
    PROVE  IInv'
  <1>t. TypeOK
    BY DEF IInv
  <1>o. /\ load[l] = "new" /\ from' = [from EXCEPT ![l] = state]
        /\ load' = [load EXCEPT ![l] = IF state = NoFile THEN "done" ELSE "reading"]
        /\ UNCHANGED <<files, saves, tmp, state, data, count, pc, fd, at, size, failed, overlap, read, seen>>
    BY DEF LoadOpen, files, saves
  <1>s. /\ read[l] \in Nat
        /\ ~overlap => /\ Settled(state) /\ LoadsOK /\ read[l] = 0
    BY <1>o, <1>t DEF IInv, Alone, LoadsOK, TypeOK
  <1>1. TypeOK'
    BY <1>o, <1>t DEF TypeOK, File
  <1>2. ASSUME ~overlap PROVE LoadsOK'
    <2> SUFFICES ASSUME NEW k \in Loads
                 PROVE  (/\ load[k] = "new" => from[k] = NoFile
                         /\ Settled(from[k])
                         /\ from[k] = NoFile => read[k] = 0
                         /\ \A b \in 1..Blocks :
                                seen[k][b] = IF b <= read[k] THEN data[from[k]][b] ELSE NoFile
                         /\ load[k] = "done" /\ from[k] # NoFile => EndsAt(from[k], read[k]))'
      BY DEF LoadsOK
    <2>1. CASE k = l
      <3>1. from'[l] = state /\ load'[l] = IF state = NoFile THEN "done" ELSE "reading"
        BY <1>o, <1>t DEF TypeOK
      <3>2. \A b \in 1..Blocks : seen[l][b] = NoFile
        BY <1>2, <1>s DEF LoadsOK
      <3>3. Settled(from[l])'
        BY <3>1, <1>2, <1>s, <1>o DEF Settled, Whole, Begun, Text
      <3> QED BY <2>1, <3>1, <3>2, <3>3, <1>2, <1>s, <1>o
    <2>2. CASE k # l
      <3>1. from'[k] = from[k] /\ load'[k] = load[k]
        BY <2>2, <1>o, <1>t DEF TypeOK
      <3>2. Settled(from[k]) /\ read' = read /\ seen' = seen /\ data' = data
        BY <1>2, <1>s, <1>o DEF LoadsOK
      <3>3. Settled(from[k])'
        BY <3>1, <3>2, <1>o DEF Settled, Whole, Begun, Text
      <3> QED BY <3>1, <3>2, <3>3, <1>2, <1>s DEF LoadsOK, EndsAt
    <2> QED BY <2>1, <2>2
  <1>3. \A k \in Loads : load'[k] = "reading" => from'[k] # NoFile
    BY <1>o, <1>t DEF IInv, ProgressOK, TypeOK
  <1> QED BY <1>1, <1>2, <1>3, <1>o, LoadFrame

LEMMA LoadBlockIInv ==
    ASSUME IInv, NEW l \in Loads, LoadBlock(l)
    PROVE  IInv'
  <1>t. TypeOK
    BY DEF IInv
  <1> PICK n : n = read[l] + 1
    OBVIOUS
  <1>o. /\ load[l] = "reading" /\ ~EndsAt(from[l], read[l])
        /\ read' = [read EXCEPT ![l] = n]
        /\ seen' = [seen EXCEPT ![l] = [@ EXCEPT ![n] = data[from[l]][n]]]
        /\ UNCHANGED <<files, saves, tmp, state, data, count, pc, fd, at, size, failed, overlap, load, from>>
    BY DEF LoadBlock, files, saves
  <1>s. /\ from[l] \in Saves /\ from[l] # NoFile /\ read[l] \in Nat /\ n \in 1..Blocks
        /\ ~overlap => LoadsOK
    BY <1>o, <1>t DEF IInv, Alone, ProgressOK, TypeOK, EndsAt, File
  <1>1. TypeOK'
    <2>1. seen[l] \in [1..Blocks -> File] /\ data[from[l]][n] \in File
      BY <1>s, <1>t DEF TypeOK
    <2>2. [seen[l] EXCEPT ![n] = data[from[l]][n]] \in [1..Blocks -> File]
      BY <2>1
    <2>3. seen' \in [Loads -> [1..Blocks -> File]] /\ read' \in [Loads -> 0..Blocks]
      BY <2>2, <1>s, <1>o, <1>t DEF TypeOK
    <2> QED BY <2>3, <1>o, <1>t DEF TypeOK
  <1>2. ASSUME ~overlap PROVE LoadsOK'
    <2> SUFFICES ASSUME NEW k \in Loads
                 PROVE  (/\ load[k] = "new" => from[k] = NoFile
                         /\ Settled(from[k])
                         /\ from[k] = NoFile => read[k] = 0
                         /\ \A b \in 1..Blocks :
                                seen[k][b] = IF b <= read[k] THEN data[from[k]][b] ELSE NoFile
                         /\ load[k] = "done" /\ from[k] # NoFile => EndsAt(from[k], read[k]))'
      BY DEF LoadsOK
    <2>0. Settled(from[k]) /\ (load[k] = "new" => from[k] = NoFile)
      BY <1>2, <1>s DEF LoadsOK
    <2>1. Settled(from[k])' /\ (load[k] = "new" => from[k] = NoFile)'
      BY <2>0, <1>o DEF Settled, Whole, Begun, Text
    <2>2. CASE k = l
      <3>1. read'[l] = n /\ seen'[l] = [seen[l] EXCEPT ![n] = data[from[l]][n]]
        BY <1>o, <1>t DEF TypeOK
      <3>2. \A b \in 1..Blocks : seen[l][b] = IF b <= read[l] THEN data[from[l]][b] ELSE NoFile
        BY <1>2, <1>s DEF LoadsOK
      <3>3. seen[l] \in [1..Blocks -> File]
        BY <1>t DEF TypeOK
      <3>4. \A b \in 1..Blocks : seen'[l][b] = IF b <= n THEN data[from[l]][b] ELSE NoFile
        BY <3>1, <3>2, <3>3, <1>s
      <3> QED BY <2>1, <2>2, <3>1, <3>4, <1>s, <1>o
    <2>3. CASE k # l
      <3>1. read'[k] = read[k] /\ seen'[k] = seen[k]
        BY <2>3, <1>o, <1>t DEF TypeOK
      <3> QED BY <2>1, <3>1, <1>2, <1>s, <1>o DEF LoadsOK, EndsAt
    <2> QED BY <2>2, <2>3
  <1>3. \A k \in Loads : load'[k] = "reading" => from'[k] # NoFile
    BY <1>o DEF IInv, ProgressOK
  <1> QED BY <1>1, <1>2, <1>3, <1>o, LoadFrame

LEMMA LoadEndIInv ==
    ASSUME IInv, NEW l \in Loads, LoadEnd(l)
    PROVE  IInv'
  <1>t. TypeOK
    BY DEF IInv
  <1>o. /\ load[l] = "reading" /\ EndsAt(from[l], read[l])
        /\ load' = [load EXCEPT ![l] = "done"]
        /\ UNCHANGED <<files, saves, tmp, state, data, count, pc, fd, at, size, failed, overlap, from, read, seen>>
    BY DEF LoadEnd, files, saves
  <1>1. TypeOK'
    BY <1>o, <1>t DEF TypeOK
  <1>2. ASSUME ~overlap PROVE LoadsOK'
    <2>1. LoadsOK
      BY <1>2 DEF IInv, Alone
    <2>2. \A k \in Loads : load'[k] = load[k] \/ (k = l /\ load'[k] = "done")
      BY <1>o, <1>t DEF TypeOK
    <2> SUFFICES ASSUME NEW k \in Loads
                 PROVE  (/\ load[k] = "new" => from[k] = NoFile
                         /\ Settled(from[k])
                         /\ from[k] = NoFile => read[k] = 0
                         /\ \A b \in 1..Blocks :
                                seen[k][b] = IF b <= read[k] THEN data[from[k]][b] ELSE NoFile
                         /\ load[k] = "done" /\ from[k] # NoFile => EndsAt(from[k], read[k]))'
      BY DEF LoadsOK
    <2>3. Settled(from[k])
      BY <2>1 DEF LoadsOK
    <2>4. Settled(from[k])'
      BY <2>3, <1>o DEF Settled, Whole, Begun, Text
    <2> QED BY <2>1, <2>2, <2>4, <1>o DEF LoadsOK, EndsAt
  <1>3. \A k \in Loads : load'[k] = "reading" => from'[k] # NoFile
    BY <1>o, <1>t DEF IInv, ProgressOK, TypeOK
  <1> QED BY <1>1, <1>2, <1>3, <1>o, LoadFrame

LEMMA NextIInv == IInv /\ [Next]_vars => IInv'
  <1> SUFFICES ASSUME IInv, [Next]_vars PROVE IInv'
    OBVIOUS
  <1>1. ASSUME NEW p \in Processes, Saving(p) PROVE IInv'
    BY <1>1, OpenIInv, WriteIInv, ReplaceIInv, LeaveIInv DEF Saving
  <1>2. ASSUME NEW l \in Loads, Loading(l) PROVE IInv'
    BY <1>2, LoadOpenIInv, LoadBlockIInv, LoadEndIInv DEF Loading
  <1>3. ASSUME UNCHANGED vars PROVE IInv'
    <2>1. UNCHANGED <<tmp, state, data, count, pc, fd, at, size, load, from, read, seen, failed, overlap>>
      BY <1>3 DEF vars, files, saves, loads
    <2>2. TypeOK'
      BY <2>1 DEF IInv, TypeOK
    <2>3. \A l \in Loads : load'[l] = "reading" => from'[l] # NoFile
      BY <2>1 DEF IInv, ProgressOK
    <2>4. ASSUME ~overlap PROVE LoadsOK'
      <3>1. TypeOK /\ LoadsOK
        BY <2>4 DEF IInv, Alone
      <3>2. \A g \in File : Settled(g) => Settled(g)'
        BY <2>1 DEF Settled, Whole, Begun, Text
      <3> QED BY <3>1, <3>2, <2>1, LoadsFrame DEF loads
    <2> QED BY <2>1, <2>2, <2>3, <2>4, LoadFrame DEF files, saves
  <1> QED BY <1>1, <1>2, <1>3 DEF Next

\* The invariant of RecordWrite: until two saves of the job overlap, neither the record nor
\* what a load has open is the file that is being written.
THEOREM Invariance == Spec => []IInv
  BY InitIInv, NextIInv, PTL DEF Spec

\* A load that found a record has read the text of one save, complete, whatever died
\* meanwhile: unless two processes were inside _save_job of the same job at once.
THEOREM WholeLoads == Spec => []LoadsAreWhole
  <1>1. IInv => LoadsAreWhole
    <2> SUFFICES ASSUME IInv, ~overlap, NEW l \in Loads, load[l] = "done", from[l] # NoFile
                 PROVE  \E s \in Saves : seen[l] = Text(s)
      BY DEF LoadsAreWhole
    <2>1. /\ Settled(from[l]) /\ EndsAt(from[l], read[l]) /\ from[l] \in Saves
          /\ \A b \in 1..Blocks : seen[l][b] = IF b <= read[l] THEN data[from[l]][b] ELSE NoFile
          /\ seen[l] \in [1..Blocks -> File]
      BY DEF IInv, Alone, LoadsOK, TypeOK, File
    <2>2. PICK s \in Saves : data[from[l]] = Text(s)
      BY <2>1 DEF Settled, Whole
    <2>3. \A b \in 1..Blocks : seen[l][b] = data[from[l]][b]
      <3>1. read[l] \in Nat /\ \A b \in 1..Blocks : b > read[l] => data[from[l]][b] = NoFile
        BY <2>1 DEF EndsAt, IInv, TypeOK
      <3> QED BY <3>1, <2>1
    <2>4. seen[l] = Text(s)
      BY <2>1, <2>2, <2>3 DEF Text
    <2> QED BY <2>4
  <1> QED BY <1>1, Invariance, PTL

\* A save raises only once two saves of the job have overlapped.
THEOREM SuccessfulSaves == Spec => []SavesSucceed
  <1>1. IInv => SavesSucceed
    BY DEF IInv, Alone, SavesSucceed, TypeOK
  <1> QED BY <1>1, Invariance, PTL

------------------------------------------------------------------------------
LEMMA RegisterInit == Init => Register!Init
  BY DEF Init, Register!Init, Author, Found

\* What is settled keeps its author.
LEMMA AuthorFrame ==
    ASSUME NEW f, f # NoFile => data'[f] = data[f]
    PROVE  Author(f)' = Author(f)
  BY DEF Author

\* A step that ends with an overlap is a Break; before that, only a rename changes the
\* record and only an open what a load has found.
LEMMA RegisterStep ==
    ASSUME IInv, [Next]_vars
    PROVE  [Register!Next]_(<<Author(state), Found, overlap>>)
  <1>t. TypeOK
    BY DEF IInv
  <1>1. ASSUME overlap' PROVE Register!Next
    BY <1>1 DEF Register!Next, Register!Break
  <1>2. ASSUME ~overlap', NEW p \in Processes, Saving(p)
        PROVE  \/ UNCHANGED <<Author(state), Found, overlap>>
               \/ \E s \in Saves : Register!Save(s)
    <2>1. /\ overlap' = overlap /\ Alone /\ load' = load /\ from' = from
      <3>1. load' = load /\ from' = from
        BY <1>2 DEF Saving, Open, Write, Replace, ReplaceFails, Crash, loads
      <3>2. overlap => overlap'
        BY <1>2 DEF Saving, Open, Write, Replace, ReplaceFails, Crash
      <3>3. ~overlap /\ overlap' = overlap
        BY <3>2, <1>2, <1>t DEF TypeOK, Saving, Open, Write, Replace, ReplaceFails, Crash
      <3> QED BY <3>1, <3>3 DEF IInv
    <2>2. ASSUME \A g \in File : Settled(g) /\ g # NoFile => data'[g] = data[g]
          PROVE  Found' = Found
      <3>1. \A l \in Loads : from[l] # NoFile => data'[from[l]] = data[from[l]]
        BY <2>1, <2>2, <1>t DEF Alone, LoadsOK, TypeOK
      <3> QED BY <3>1, <2>1 DEF Found, Author
    <2>3. CASE Replace(p)
      <3>1. /\ state' = tmp /\ data' = data /\ pc[p] = "replace" /\ tmp # NoFile
        BY <2>3 DEF Replace
      <3>2. /\ Current(p) \in Saves /\ size[Current(p)] \in 1..Blocks /\ at[p] = size[Current(p)]
            /\ data[tmp] = [b \in 1..Blocks |-> IF b <= at[p] THEN Current(p) ELSE NoFile]
        BY <3>1, <1>2, <2>1, InSave
      <3>3. Author(state)' = Current(p)
        BY <3>1, <3>2 DEF Author
      <3>4. Found' = Found
        BY <2>2, <3>1
      <3> QED BY <2>1, <3>2, <3>3, <3>4 DEF Register!Save
    <2>4. CASE ~Replace(p)
      <3>1. state' = state
        BY <2>4, <1>2 DEF Saving, Open, Write, ReplaceFails, Crash, files
      <3>2. \A g \in File : Settled(g) /\ g # NoFile => data'[g] = data[g]
        <4>1. CASE \E n \in 1..Blocks : Open(p, n)
          <5>1. PICK f : f = IF tmp = NoFile THEN <<p, count[p] + 1>> ELSE tmp
            OBVIOUS
          <5>2. data' = [data EXCEPT ![f] = Blank] /\ count[p] < MaxSaves
            BY <4>1, <5>1 DEF Open
          <5>3. \A g \in File : Settled(g) /\ g # NoFile => g \in Saves /\ g # f
            BY <5>1, <5>2, <1>t, SaveTypes DEF Settled, File
          <5> QED BY <5>2, <5>3, <1>t DEF TypeOK
        <4>2. CASE Write(p)
          <5>1. pc[p] # "idle" /\ ~overlap
            BY <4>2, <1>2, <2>1 DEF Write
          <5>3. fd[p] = tmp
            BY <5>1, InSave
          <5>2. \E u : data' = [data EXCEPT ![fd[p]] = u]
            BY <4>2 DEF Write
          <5> QED BY <5>2, <5>3, <1>t DEF Settled, File, TypeOK
        <4>3. CASE ReplaceFails(p) \/ Crash(p)
          BY <4>3 DEF ReplaceFails, Crash, files
        <4> QED BY <4>1, <4>2, <4>3, <2>4, <1>2 DEF Saving
      <3>3. Author(state)' = Author(state)
        BY <3>1, <3>2, <2>1, <1>t DEF Author, Alone, TypeOK
      <3>4. Found' = Found
        BY <2>2, <3>2
      <3> QED BY <2>1, <3>3, <3>4
    <2> QED BY <2>3, <2>4
  <1>3. ASSUME NEW l \in Loads, Loading(l)
        PROVE  UNCHANGED <<Author(state), Found, overlap>> \/ Register!Load(l)
    <2>1. data' = data /\ state' = state /\ overlap' = overlap
      BY <1>3 DEF Loading, LoadOpen, LoadBlock, LoadEnd, files, saves
    <2>2. Author(state)' = Author(state)
      BY <2>1 DEF Author
    <2>3. CASE LoadOpen(l)
      <3>1. /\ load[l] = "new" /\ from' = [from EXCEPT ![l] = state]
            /\ load' = [load EXCEPT ![l] = IF state = NoFile THEN "done" ELSE "reading"]
        BY <2>3 DEF LoadOpen
      <3>2. Found[l] = NotRead
        BY <3>1 DEF Found
      <3>3. Found' = [Found EXCEPT ![l] = Author(state)]
        BY <3>1, <2>1, <1>t DEF Found, Author, TypeOK
      <3> QED BY <2>1, <2>2, <3>2, <3>3 DEF Register!Load
    <2>4. CASE LoadBlock(l)
      BY <2>1, <2>2, <2>4 DEF LoadBlock, Found, Author
    <2>5. CASE LoadEnd(l)
      <3>1. \A k \in Loads : load'[k] = "new" <=> load[k] = "new"
        BY <2>5, <1>t DEF LoadEnd, TypeOK
      <3> QED BY <2>1, <2>2, <2>5, <3>1 DEF LoadEnd, Found, Author
    <2> QED BY <1>3, <2>3, <2>4, <2>5 DEF Loading
  <1>4. ASSUME UNCHANGED vars PROVE UNCHANGED <<Author(state), Found, overlap>>
    BY <1>4 DEF vars, files, saves, loads, Author, Found
  <1> QED BY <1>1, <1>2, <1>3, <1>4 DEF Next, Register!Next

\* The record on disk, written and read call by call, is the register that LocalJobs and
\* SlurmJobs take it for: until two saves of the job overlap.
THEOREM Refinement == Spec => ImplementsRegister
  BY RegisterInit, RegisterStep, Invariance, PTL DEF Spec, ImplementsRegister, Register!Spec
==============================================================================
