---------------------------- MODULE LogShortTime ----------------------------
(***************************************************************************)
(* The sample times DlgLogInspector::parseLog() gives the rows of a shv    *)
(* log (src/libshvvisu/src/logview/dlgloginspector.cpp).                   *)
(*                                                                         *)
(* A row is [timestamp, path, value, short time].  The path is a string    *)
(* or an index into the "pathsDict" meta value.  Devices that log a short  *)
(* time put there a free-running 16-bit millisecond counter; parseLog()    *)
(* then times the path's samples by the counter: a per-path ShortTime      *)
(* accumulator is anchored at the first row's timestamp and advanced by    *)
(* the counter's difference taken as uint16_t.  Rows of the path "data"    *)
(* whose value is a list (the "Anca hook") carry a second counter in the   *)
(* list and are timed by one more accumulator.                             *)
(*                                                                         *)
(* The counter has ShortBits bits.  The log is read row by row; a device   *)
(* whose counter runs with its clock writes counter = (timestamp +         *)
(* offset) mod 2^ShortBits.                                                *)
(***************************************************************************)
EXTENDS Integers, Sequences, FiniteSets, TLC

CONSTANTS
    ShortBits,      \* width of the short-time counter (16 in the code)
    PathNames,      \* paths rows name directly
    Dict,           \* the "pathsDict" meta value: index -> path
    PathIds,        \* indexes rows may give instead of a path
    ShortPaths,     \* paths whose rows carry a short time
    DataPath,       \* "data", the path of the Anca hook
    AncaPath,       \* "U", one of the paths the Anca hook fills
    ShortOffset,    \* the device counter's offset to the timestamps
    DtSteps,        \* gaps between the timestamps of consecutive rows
    FirstDt,        \* timestamp of the first row
    MaxRows         \* bound: rows in the log

Wrap == 2^ShortBits

ShortRange == 0 .. Wrap - 1

OutPaths == PathNames \cup {AncaPath}

(* The counter a device writes at timestamp dt.                            *)
Counter(dt) == (dt + ShortOffset) % Wrap

(* struct ShortTime { int64_t msec_sum = 0; uint16_t last_msec = 0; }.    *)
NewShortTime == [sum |-> 0, last |-> 0]

(* Mutant: the difference is taken as a signed value.                       *)
AddShortTimeSigned(st, msec) ==
    [sum |-> st.sum + (msec - st.last), last |-> msec]

(* ShortTime::addShortTime(): msec_sum += uint16_t(msec - last_msec).      *)
AddShortTime(st, msec) ==
    [sum |-> st.sum + ((msec - st.last) % Wrap), last |-> msec]

(* `if(st.msec_sum == 0) st.msec_sum = msec;` then addShortTime().          *)
Advance(st, msec, short) ==
    AddShortTime(IF st.sum = 0 THEN [st EXCEPT !.sum = msec] ELSE st, short)

(* dict.value(rv_path.toInt()).toString(): "" for an unknown index.      *)
DictPath(id) == IF id \in DOMAIN Dict THEN Dict[id] ELSE ""

-----------------------------------------------------------------------------
VARIABLES
    dt,             \* timestamp of the last row read (input)
    rowsRead,       \* rows parsed so far
    shortTimes,     \* QMap<std::string, ShortTime> short_times
    anca,           \* ShortTime anca_hook_short_time
    prev,           \* ghost: per output path, the sample before the last
    last,           \* ghost: per output path, the last sample [dt, t]
    first           \* ghost: per output path, the first sample

vars == <<dt, rowsRead, shortTimes, anca, prev, last, first>>

NoSample == [dt |-> -1, t |-> -1]

Init ==
    /\ dt = FirstDt
    /\ rowsRead = 0
    /\ shortTimes = [p \in ShortPaths |-> NewShortTime]
    /\ anca = NewShortTime
    /\ prev = [p \in OutPaths |-> NoSample]
    /\ last = [p \in OutPaths |-> NoSample]
    /\ first = [p \in OutPaths |-> NoSample]

(* m_graphModel->appendValueShvPath(path, Sample{msec, v}).                 *)
AppendSample(p, rowDt, msec) ==
    /\ prev' = [prev EXCEPT ![p] = last[p]]
    /\ last' = [last EXCEPT ![p] = [dt |-> rowDt, t |-> msec]]
    /\ first' = IF first[p] = NoSample
                THEN [first EXCEPT ![p] = [dt |-> rowDt, t |-> msec]]
                ELSE first

(* One iteration of the loop over the log's rows, for a row whose path     *)
(* resolved to path; isList tells a list value of the "data" path.        *)
ParseRow(step, path, isList) ==
    /\ rowsRead < MaxRows
    /\ LET rowDt == IF rowsRead = 0 THEN dt ELSE dt + step
           hasShort == path \in ShortPaths
           st    == IF hasShort THEN Advance(shortTimes[path], rowDt, Counter(rowDt))
                    ELSE NewShortTime
           msec  == IF hasShort THEN st.sum ELSE rowDt
           isAnca == path = DataPath /\ isList
           at    == Advance(anca, msec, Counter(rowDt))
       IN  /\ dt' = rowDt
           /\ rowsRead' = rowsRead + 1
           /\ IF path = ""
              THEN UNCHANGED <<shortTimes, anca, prev, last, first>>
              ELSE /\ shortTimes' = IF hasShort
                                    THEN [shortTimes EXCEPT ![path] = st]
                                    ELSE shortTimes
                   /\ IF isAnca
                      THEN /\ anca' = at
                           /\ AppendSample(AncaPath, rowDt, at.sum)
                      ELSE /\ anca' = anca
                           /\ AppendSample(path, rowDt, msec)

(* A row that names its path.                                              *)
ParseNamedRow(step, name, isList) == ParseRow(step, name, isList)

(* A row that gives an index into pathsDict.                               *)
ParseIndexedRow(step, id, isList) == ParseRow(step, DictPath(id), isList)

Next ==
    \E step \in DtSteps, isList \in BOOLEAN :
        \/ \E name \in PathNames : ParseNamedRow(step, name, isList)
        \/ \E id \in PathIds : ParseIndexedRow(step, id, isList)

Spec == Init /\ [][Next]_vars

-----------------------------------------------------------------------------
(* Two consecutive samples of a path whose timestamps lie less than one    *)
(* counter period apart are spaced exactly as their timestamps: the       *)
(* uint16_t difference of the short times (addShortTime) recovers the     *)
(* elapsed time across the counter's wrap.                                 *)
RelativeTimesPreserved ==
    \A p \in OutPaths :
        /\ prev[p] # NoSample
        /\ last[p].dt - prev[p].dt < Wrap
        => last[p].t - prev[p].t = last[p].dt - prev[p].dt

(* The first sample of a path is placed at its row's timestamp, which is  *)
(* what parseLog() anchors the accumulator at (msec_sum = msec).           *)
FirstSampleAtItsTime ==
    \A p \in OutPaths : first[p] # NoSample => first[p].t = first[p].dt
=============================================================================
