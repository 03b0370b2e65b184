------------------------------- MODULE IBellhop -------------------------------
(***************************************************************************)
(* CiBellhop (apps/iBellhop): keeps the environment of one MOOS community, *)
(* learns sound speeds and the positions of vehicles from its mail, and    *)
(* answers requests for ray traces with the output of bellhop.exe.         *)
(*                                                                         *)
(* MOOS delivers the mail one message at a time, so a handler is one       *)
(* action.  Vehicles move on a north-south line: y is the position and     *)
(* heading 180 the way down it; a sound speed is a natural number and an   *)
(* interpolated one a fraction.  What a file holds is the number of the    *)
(* request it was written for.                                             *)
(***************************************************************************)
EXTENDS BellhopEnv, TLC

CONSTANTS
    InitialColumns,  \* water_column of the configured initial_env
    Ownship,         \* adaptive_info.ownship of initial_env, or the community
    Lower,           \* boost::to_lower: [names -> names]
    MaxReceivers,    \* max_number_of_receivers
    Uint,            \* 2^w, w the width of unsigned int
    ExtrapolateNav,  \* extrapolate_nav
    LocalSoundSpeed, \* has_local_sound_speed_var
    Requests,        \* the requests that may come in
    SspUpdates,      \* AVG_SS_VEC messages: [depth, c], two sequences
    Reports,         \* NODE_REPORT messages: [name, fields]
    NavUpdates,      \* NAV_ messages: [var, value]
    SspDepths,       \* depths asked for in SSP_INFO_REQUEST
    MaxRequests, MaxMail, MaxMessages, MaxClock   \* bounds; MaxMessages on both

VARIABLES
    alive,           \* the program has not ended
    initial_env,     \* cfg_.initial_env().water_column
    node_reports_,   \* name -> NodeReport
    streams,         \* <<>>, or the file and request the streams are left open on
    files,           \* file -> request whose environment or output it holds;
                     \*         0 nothing, < 0 what precedes an exception
    shdfil,          \* request whose output SHDFIL is a copy of, 0 if none
    ascfil,          \* request whose output ASCFIL holds, 0 if there is no such file
    response,        \* the responses published, in order
    sound_speed,     \* the interpolated speeds published, in order: <<depth, speed>>
    clock, mail,     \* seconds; messages handled that are not requests
    heard            \* history: vehicles of which a position has been handled

vars == <<alive, initial_env, node_reports_, streams, files, shdfil, ascfil, response,
          sound_speed, clock, mail, heard>>

ASSUME ConstantsAssumption ==
    /\ Len(InitialColumns) > 0
    /\ \A i, j \in DOMAIN InitialColumns[1].sample : i # j =>
          InitialColumns[1].sample[i].depth # InitialColumns[1].sample[j].depth
    /\ \E i \in DOMAIN InitialColumns[1].sample : InitialColumns[1].sample[i].depth = 0
    /\ \A msg \in Reports : Lower[Lower[msg.name]] = Lower[msg.name]

-----------------------------------------------------------------------------
(* The sound speed profile *)

ByDepth(sample) == SortSeq(sample, LAMBDA a, b : a.depth < b.depth)

\* find_sample: the sample with this depth, or one more at the end.
FindSample(sample, depth) ==
    LET S == {i \in DOMAIN sample : depth = sample[i].depth}
    IN  IF S = {} THEN Len(sample) + 1 ELSE Min(S)

SetSample(sample, depth, cp) ==
    LET i == FindSample(sample, depth)
        new == [depth |-> depth, cp |-> cp,
                eof |-> IF i \in DOMAIN sample
                        THEN [j \in DOMAIN sample[i].eof |-> 0] ELSE <<>>]
    IN  IF i \in DOMAIN sample THEN [sample EXCEPT ![i] = new] ELSE Append(sample, new)

\* A speed of "0" or "" is no measurement.
UpdatedSamples(sample, depths, speeds) ==
    ByDepth(FoldLeft(LAMBDA s, i : IF speeds[i] = 0 THEN s
                                   ELSE SetSample(s, depths[i], speeds[i]),
                     sample, [i \in DOMAIN depths |-> i]))

\* What a read past the end of a repeated field may yield.
Junk == {0, 9}

Between_Below(sample, depth) == {i \in 1..(Len(sample) - 1) : sample[i].depth <= depth}

\* The pairs of neighbouring samples the depth lies between.
Between(sample, depth) ==
    {i \in 1..(Len(sample) - 1) :
        sample[i].depth <= depth /\ depth <= sample[i + 1].depth}

\* get_ssp_value: the values it may return, as fractions.  The number of EOFs of
\* the upper sample is used for both, whatever the lower one has.
SspValues(col, depth) ==
    LET n == Between(col.sample, depth)
        up == col.sample[Min(n)]
        dn == col.sample[Min(n) + 1]
        modes == Min({Len(up.eof), Len(col.eof_coef)})
        speedsDn == IF modes <= Len(dn.eof) THEN {SspWith(dn, col.eof_coef, modes)}
                    ELSE {dn.cp + j : j \in Junk}
        den == dn.depth - up.depth
    IN  IF n = {} THEN {[num |-> 0, den |-> 1]}
        ELSE {[num |-> Ssp(up, col.eof_coef) * den
                         + (depth - up.depth) * (s - Ssp(up, col.eof_coef)),
               den |-> den] : s \in speedsDn}

-----------------------------------------------------------------------------
(* The mail that is not a request *)

\* Bound on the messages of either kind.
Room == Len(response) + mail < MaxMessages

Handled ==
    /\ alive /\ Room /\ mail < MaxMail
    /\ mail' = mail + 1
    /\ UNCHANGED <<alive, streams, files, shdfil, ascfil, response, clock>>

HandleSspUpdate(msg) ==
    /\ Handled
    /\ initial_env' = IF Len(msg.depth) # Len(msg.c) THEN initial_env
                      ELSE [initial_env EXCEPT ![1].sample =
                              UpdatedSamples(@, msg.depth, msg.c)]
    /\ UNCHANGED <<node_reports_, heard, sound_speed>>

PublishSpeed(depth) ==
    \E v \in SspValues(initial_env[1], depth) :
        sound_speed' = Append(sound_speed, <<depth, v>>)

HandleSspRequest(depth) ==
    /\ Handled
    /\ PublishSpeed(depth)
    /\ UNCHANGED <<initial_env, node_reports_, heard>>

NoReport == [y |-> 0, depth |-> 0, speed |-> 0, heading |-> 0, time |-> 0]

\* node_reports_[name]: an entry that is not there yet is all zero.  A field
\* that is missing keeps its value.
Overlaid(name, fields) ==
    fields @@ IF name \in DOMAIN node_reports_ THEN node_reports_[name] ELSE NoReport

Reported(name, fields) ==
    /\ heard' = heard \cup {Lower[name]}
    /\ node_reports_' =
          [x \in DOMAIN node_reports_ \cup {name} |->
              IF x = name THEN Overlaid(name, fields) ELSE node_reports_[x]]

HandleNodeReport(msg) ==
    /\ Handled
    /\ Reported(Lower[msg.name], msg.fields)
    /\ UNCHANGED <<initial_env, sound_speed>>

HandleNavX ==
    /\ Handled
    /\ Reported(Ownship, [time |-> clock])
    /\ UNCHANGED <<initial_env, sound_speed>>

\* NAV_Y, NAV_SPEED, NAV_HEADING
HandleNav(msg) ==
    /\ Handled /\ msg.var # "depth"
    /\ Reported(Ownship, msg.var :> msg.value)
    /\ UNCHANGED <<initial_env, sound_speed>>

\* The sound speed is that of initial_env, not of the environment that the last
\* request was merged into (as the comment at iBellhop.cpp:621 has it).
HandleNavDepth(msg) ==
    /\ Handled /\ msg.var = "depth"
    /\ Reported(Ownship, [depth |-> msg.value])
    /\ IF LocalSoundSpeed THEN PublishSpeed(msg.value) ELSE UNCHANGED sound_speed
    /\ UNCHANGED initial_env

-----------------------------------------------------------------------------
(* handle_request *)

MergedColumn(a, b) ==
    [sample |-> a.sample \o b.sample,
     eof_coef |-> a.eof_coef \o b.eof_coef,
     bathymetry |-> IF b.bathymetry = 0 THEN a.bathymetry ELSE b.bathymetry]

\* The water columns of initial_env with those of the request.  MERGE_SAMPLES
\* takes the first column of the request only.
MergedColumns(r) ==
    IF r.action = "OVERWRITE" THEN r.columns
    ELSE IF r.action = "MERGE_SAMPLES" /\ r.columns # <<>>
    THEN [initial_env EXCEPT ![1] = MergedColumn(@, r.columns[1])]
    ELSE initial_env \o r.columns

Self(r) == Lower[r.ownship]
Other(r) == Lower[r.contact]

\* The product of two unsigned numbers, which may overflow.
TooManyReceivers(r) == (r.number_in_depth * r.number_in_range) % Uint > MaxReceivers

PositionsKnown_AsGiven(r) ==
    \/ ~r.auto_receiver_ranges /\ ~r.auto_source_depth
    \/ Other(r) \in DOMAIN node_reports_ /\ r.ownship \in DOMAIN node_reports_

PositionsKnown(r) ==
    \/ ~r.auto_receiver_ranges /\ ~r.auto_source_depth
    \/ Other(r) \in DOMAIN node_reports_ /\ Self(r) \in DOMAIN node_reports_

Distance(a, b) == IF a < b THEN b - a ELSE a - b
Velocity(nav) == IF nav.heading = 180 THEN -nav.speed ELSE nav.speed

\* update_positions: the receivers' number, first and last range, from the
\* current and the predicted distance of the two vehicles.
Receivers(r) ==
    IF ~r.auto_receiver_ranges
    THEN [number |-> r.number_in_range, first |-> 0, last |-> r.range]
    ELSE LET self == node_reports_[Self(r)]
             other == node_reports_[Other(r)]
             y == IF ExtrapolateNav THEN other.y + Velocity(other) * (clock - other.time)
                  ELSE other.y
             now == Distance(y, self.y)
             future == Distance(y + Velocity(other) * r.look_ahead_seconds,
                                self.y + Velocity(self) * r.look_ahead_seconds)
         IN  [number |-> (Distance(now, future) + r.delta - 1) \div r.delta,
              first |-> Min({now, future}), last |-> Max({now, future})]

SourceDepth(r) ==
    IF r.auto_source_depth THEN node_reports_[Other(r)].depth ELSE r.source_depth

Pressure(r) ==
    r.type \in {"COHERENT_PRESSURE", "INCOHERENT_PRESSURE", "SEMICOHERENT_PRESSURE"}

\* A file's name: requestor, pair, second, and its ending.
FileName(r, ending) == <<r.requestor, Other(r), Self(r), clock, ending>>
Ending(r) ==
    IF Pressure(r) THEN "shd" ELSE IF r.type = "ARRIVAL_TIMES" THEN "arr" ELSE "ray"
EnvName(r) == FileName(r, "env")
OutputName(r) == FileName(r, Ending(r))

Content(f) == IF f \in DOMAIN files THEN files[f] ELSE 0

\* What the environment file holds once output_env has run.  If the streams were
\* still open, the open() has failed and nothing is written to it.
EnvWritten(r, n) == IF streams = <<>> THEN n ELSE Content(EnvName(r))

CloseStreams_Not == streams' = streams

CloseStreams == streams' = <<>>

\* calculate_env with an exception in output_env: return without closing.
Thrown(r, n) ==
    /\ streams' = IF streams = <<>> THEN <<EnvName(r), n>> ELSE streams
    /\ files' = [f \in DOMAIN files \cup {EnvName(r)} |->
                    IF f = EnvName(r) THEN EnvWritten(r, -n) ELSE files[f]]
    /\ UNCHANGED shdfil

CopyToShdfil_IncoherentOnly(r, out) ==
    IF r.type = "INCOHERENT_PRESSURE" /\ out # 0 THEN out ELSE shdfil

\* "cp <output_file> SHDFIL", if there is an output file.
CopyToShdfil(r, out) == IF Pressure(r) /\ out # 0 THEN out ELSE shdfil

\* external: the files bellhop.exe makes of an environment file, if that is whole.
\* The kind of output is the one that the file asks for, whoever has written it.
Produced(r, env) ==
    LET asked == IF env \in DOMAIN response THEN response[env].request ELSE r
    IN  IF env > 0 THEN {FileName(r, Ending(asked))} ELSE {}

\* calculate_env to its end: the streams are closed, bellhop.exe is run on the
\* environment file (ran: it has succeeded), and the file named for the output of
\* a pressure run is copied.
Calculated(r, n, ran) ==
    LET env == EnvWritten(r, n)
        made == IF ran THEN Produced(r, env) ELSE {}
    IN  /\ CloseStreams
        /\ files' = [f \in DOMAIN files \cup {EnvName(r), OutputName(r)} \cup made |->
                        IF f \in {EnvName(r)} \cup made THEN env ELSE Content(f)]
        /\ shdfil' = CopyToShdfil(r, files'[OutputName(r)])

\* external: whether toasc.exe has made a new ASCFIL of SHDFIL; it may fail.
Converted(r, converted) == converted => r.read_shd /\ shdfil' # 0

\* read_shd: toasc.exe is run, whatever the request was for, and whatever ASCFIL
\* holds after that, be it of an earlier request, goes into the response.
ReadShd(r, converted) ==
    /\ Converted(r, converted)
    /\ ascfil' = IF converted THEN shdfil' ELSE ascfil

Respond(a) == response' = Append(response, a)

\* A request that is turned down.
RefuseRequest(r) ==
    /\ alive /\ Room /\ Len(response) < MaxRequests
    /\ TooManyReceivers(r) \/ ~PositionsKnown(r)
    /\ Respond([request |-> r, success |-> FALSE, result |-> "refused", file |-> <<>>,
                output |-> 0, tl |-> 0, converted |-> FALSE])
    /\ UNCHANGED <<alive, initial_env, node_reports_, streams, files, shdfil, ascfil,
                   sound_speed, clock, mail, heard>>

\* A request that is carried out; success says no more than that.
HandleRequest(r, outcome, ran, converted) ==
    /\ alive /\ Room /\ Len(response) < MaxRequests
    /\ ~TooManyReceivers(r) /\ PositionsKnown(r)
    /\ LET cols == MergedColumns(r)
       IN  CASE GridOverrun(cols) -> TRUE
             [] GridThrows(cols) -> outcome = "thrown"
             [] OTHER -> outcome = "written"
    /\ CASE outcome = "thrown" -> ~ran /\ Thrown(r, Len(response) + 1)
         [] outcome = "written" -> Calculated(r, Len(response) + 1, ran)
    /\ ReadShd(r, converted)
    /\ LET written == outcome = "written"
       IN  Respond([request |-> r, success |-> TRUE,
                    result |-> IF written /\ ~ran THEN "failed" ELSE outcome,
                    file |-> IF written THEN OutputName(r) ELSE <<>>,
                    output |-> IF written THEN files'[OutputName(r)] ELSE 0,
                    tl |-> IF r.read_shd THEN ascfil' ELSE 0,
                    converted |-> converted,
                    receivers |-> Receivers(r),
                    source_depth |-> SourceDepth(r)])
    /\ UNCHANGED <<alive, initial_env, node_reports_, sound_speed, clock, mail, heard>>

\* The output directory cannot be written to, or the grid is overrun.
EndProgram(r) ==
    /\ alive /\ Room /\ Len(response) < MaxRequests
    /\ ~TooManyReceivers(r) /\ PositionsKnown(r)
    /\ streams = <<>> \/ GridOverrun(MergedColumns(r))
    /\ alive' = FALSE
    /\ UNCHANGED <<initial_env, node_reports_, streams, files, shdfil, ascfil, response,
                   sound_speed, clock, mail, heard>>

Tick ==
    /\ alive /\ clock < MaxClock
    /\ clock' = clock + 1
    /\ UNCHANGED <<alive, initial_env, node_reports_, streams, files, shdfil, ascfil,
                   response, sound_speed, mail, heard>>

-----------------------------------------------------------------------------

Init ==
    /\ alive = TRUE
    /\ initial_env = [InitialColumns EXCEPT ![1].sample = ByDepth(@)]
    /\ node_reports_ = <<>>
    /\ streams = <<>>
    /\ files = <<>>
    /\ shdfil = 0
    /\ ascfil = 0
    /\ response = <<>>
    /\ sound_speed = <<>>
    /\ clock = 0
    /\ mail = 0
    /\ heard = {}

Next ==
    \/ \E msg \in SspUpdates : HandleSspUpdate(msg)
    \/ \E d \in SspDepths : HandleSspRequest(d)
    \/ \E msg \in Reports : HandleNodeReport(msg)
    \/ HandleNavX
    \/ \E msg \in NavUpdates : HandleNav(msg) \/ HandleNavDepth(msg)
    \/ \E r \in Requests : RefuseRequest(r)
    \/ \E r \in Requests, outcome \in {"thrown", "written"}, ran, converted \in BOOLEAN :
          HandleRequest(r, outcome, ran, converted)
    \/ \E r \in Requests : EndProgram(r)
    \/ Tick

Spec == Init /\ [][Next]_vars

-----------------------------------------------------------------------------
(* Properties *)

\* The sound speed of the last sample of a sequence that has this depth.
SpeedOf(sample, coef, d) ==
    LET s == SelectSeq(sample, LAMBDA x : x.depth = d) IN Ssp(s[Len(s)], coef)

\* The number of EOFs of sample i serves for the sample below it as well: that one
\* has as many, and any more are zero, as handle_ssp_update leaves them.
EofsAgree(s, i) ==
    /\ Len(s[i].eof) <= Len(s[i + 1].eof)
    /\ \A j \in (Len(s[i].eof) + 1)..Len(s[i + 1].eof) : s[i + 1].eof[j] = 0

\* What is published as the sound speed at a depth, on request or with NAV_DEPTH,
\* is zero only below the profile as updates have left it.  Within it, it is the
\* sample's speed at a sample's depth and lies between the speeds of the two
\* samples around the depth elsewhere (get_ssp_value, handle_ssp_update).  Left out
\* are depths between a sample that has EOFs and one below it that has fewer, as one
\* added by an update has: there the code reads past the end of the EOFs.
SpeedInterpolates ==
    [][sound_speed' # sound_speed =>
         LET s == initial_env[1].sample
             speed == [i \in DOMAIN s |-> Ssp(s[i], initial_env[1].eof_coef)]
             d == Last(sound_speed')[1]
             v == Last(sound_speed')[2]
         IN  Len(s) > 1 =>
             /\ v.den > 0
             /\ d > s[Len(s)].depth <=> v.num = 0
             /\ \A i \in 1..(Len(s) - 1) :
                   (/\ s[i].depth <= d /\ d <= s[i + 1].depth
                    /\ (i = 1 \/ s[i].depth < d)
                    /\ EofsAgree(s, i)) =>
                   /\ d = s[i].depth => v.num = speed[i] * v.den
                   /\ d = s[i + 1].depth => v.num = speed[i + 1] * v.den
                   /\ Min({speed[i], speed[i + 1]}) * v.den <= v.num
                   /\ v.num <= Max({speed[i], speed[i + 1]}) * v.den]_vars

\* What is written for bellhop.exe is the environment of the request over the
\* initial one as it is now (handle_request, output_env): with MERGE_SAMPLES the
\* speed at a depth is the request's if it has a sample there and the initial
\* environment's otherwise; in a range-dependent environment the value at a grid
\* depth is that of the column's own sample within that metre, or of its deepest.
RequestOverlaysInitial ==
    [][(response' # response /\ Last(response').result \in {"written", "failed"}) =>
         LET r == Last(response').request
             cols == MergedColumns(r)
             deepest == DeepestSspDep(cols)
             env == EnvFile(cols)
         IN  /\ (r.action = "MERGE_SAMPLES" /\ Len(r.columns) = 1 /\ Len(cols) = 1) =>
                LET own == r.columns[1].sample
                    base == initial_env[1].sample
                IN  /\ DOMAIN env.ssp = {x.depth : x \in ToSet(own) \cup ToSet(base)}
                    /\ \A d \in DOMAIN env.ssp :
                          env.ssp[d] = SpeedOf(IF \E x \in ToSet(own) : x.depth = d
                                                 THEN own ELSE base,
                                                 cols[1].eof_coef, d)
             /\ \A k \in DOMAIN env.grid, i \in DOMAIN deepest :
                   LET depths == {x.depth : x \in ToSet(cols[k].sample)}
                       here == {d \in depths : d \div Metre = deepest[i]}
                   IN  \E d \in IF here # {} THEN here ELSE {Max(depths)} :
                          env.grid[k][i] = SpeedOf(cols[k].sample, cols[k].eof_coef, d)]_vars

\* The streams were closed when request k was handled: no exception before it, or
\* a request in between that has closed them.
Fresh(k) ==
    \A j \in 1..(k - 1) : response[j].result = "thrown" =>
        \E i \in (j + 1)..(k - 1) : response[i].result \in {"written", "failed"}

\* The output a response names is the output of this very request, also after
\* others have failed, and remains so until a request of the same requestor for
\* the same pair in the same second.  An exception in output_env costs the next
\* request its output and no further one (calculate_env).
OwnOutput ==
    \A k \in DOMAIN response :
        (response[k].result = "written" /\ Fresh(k)) =>
        /\ response[k].output = k
        /\ \/ files[response[k].file] = k
           \/ \E j \in (k + 1)..Len(response) : response[j].file = response[k].file

\* The TL values of a response (read_shd) are the request's own if its run was for
\* pressure and that run and toasc.exe have succeeded, never those of the SHDFIL or
\* ASCFIL that an earlier request has left behind.  Any that are reported come from
\* a run for pressure.  If toasc.exe has failed they are those of the last request
\* for which it has not.
\*
\* That is less than iBellhop_messages.proto:52 and :63 promise, "written if read_shd
\* = true and output is a SHD file": the code writes them for any kind of output and
\* after any failure, so a response for rays or arrival times, or one whose run has
\* failed, passes off an earlier request's TL as its own.
TLOfRequest ==
    \A k \in DOMAIN response :
        LET a == response[k]
        IN  /\ a.tl # 0 => Pressure(response[a.tl].request)
            /\ (a.converted /\ a.result = "written" /\ Fresh(k) /\ Pressure(a.request))
               => a.tl = k
            /\ (a.request.read_shd /\ ~a.converted /\ a.result # "refused") =>
               \A j \in 1..(k - 1) :
                  (response[j].converted /\ \A i \in (j + 1)..(k - 1) : ~response[i].converted)
                  => a.tl = response[j].tl

\* A request is turned down only for its number of receivers or because one of
\* the two vehicles has never reported a position, whatever the case of the names
\* in reports and requests, if Ownship itself is configured in lower case
\* (handle_request, handle_node_report, update_positions).
RefusedForCause ==
    [][(response' # response /\ Last(response').result = "refused") =>
         LET r == Last(response').request
         IN  \/ TooManyReceivers(r) \/ Ownship # Lower[Ownship]
             \/ ~({Self(r), Other(r)} \subseteq heard)]_vars
=============================================================================
