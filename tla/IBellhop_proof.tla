--------------------------- MODULE IBellhop_proof ---------------------------
(***************************************************************************)
(* The files of iBellhop, for any requests, requestors and environments:   *)
(* what a response names or carries was made for that request, whatever    *)
(* has been refused, has failed or has thrown before it.                   *)
(***************************************************************************)
EXTENDS IBellhop, SequenceTheorems, TLAPS

IsSeq(q) == \E S : q \in Seq(S)

\* The environment file that goes with a file.
EnvOf(f) == <<f[1], f[2], f[3], f[4], "env">>

Answered(k) == response[k].result \in {"written", "failed"}

\* The streams are open only after an exception that no request has cleared up.
StreamsTold == IsSeq(response) /\ (Fresh(Len(response) + 1) => streams = <<>>)

\* A response that names a file names one for the output its request asks for.
Named ==
    \A k \in DOMAIN response : Answered(k) =>
        LET f == response[k].file
        IN  /\ f = <<f[1], f[2], f[3], f[4], Ending(response[k].request)>>
            /\ f \in DOMAIN files

\* An output file holds nothing or the output of a request for this kind of
\* output; a whole environment file holds that of a request for one of its outputs.
Contents ==
    \A f \in DOMAIN files :
        /\ files[f] \in Int
        /\ files[f] > 0 => files[f] \in DOMAIN response
        /\ f[5] # "env" =>
              \/ files[f] = 0
              \/ /\ files[f] > 0
                 /\ Ending(response[files[f]].request) = f[5]
        /\ f[5] = "env" /\ files[f] > 0 =>
              Answered(files[f]) /\ EnvOf(response[files[f]].file) = f

\* The environment file of a request is not replaced by an older one's.
Latest ==
    \A k \in DOMAIN response : Answered(k) /\ Fresh(k) =>
        LET e == EnvOf(response[k].file)
        IN  e \in DOMAIN files /\ (files[e] > 0 => files[e] >= k)

ShdfilOfPressure ==
    shdfil # 0 => shdfil \in DOMAIN response /\ Pressure(response[shdfil].request)

\* ASCFIL holds the output of a pressure run, and is as the last request that
\* toasc.exe has converted for has reported it.
AscfilOfPressure ==
    ascfil # 0 => ascfil \in DOMAIN response /\ Pressure(response[ascfil].request)

LastConverted ==
    \A j \in DOMAIN response :
        (response[j].converted /\ \A i \in (j + 1)..Len(response) : ~response[i].converted)
        => ascfil = response[j].tl

TLInRange == \A k \in DOMAIN response : response[k].tl # 0 => response[k].tl \in DOMAIN response

FileInv ==
    /\ StreamsTold
    /\ Named
    /\ Contents
    /\ Latest
    /\ OwnOutput
    /\ ShdfilOfPressure
    /\ AscfilOfPressure
    /\ LastConverted
    /\ TLInRange
    /\ TLOfRequest

-----------------------------------------------------------------------------
(* File names differ in their endings, and the parts before the ending are *)
(* those of the environment file.                                          *)
LEMMA NameFacts ==
    ASSUME NEW r
    PROVE  /\ \A e : FileName(r, e)[5] = e
           /\ \A e : EnvOf(FileName(r, e)) = EnvName(r)
           /\ \A e : FileName(r, e) = <<FileName(r, e)[1], FileName(r, e)[2],
                                        FileName(r, e)[3], FileName(r, e)[4], e>>
           /\ \A f, e : f = <<f[1], f[2], f[3], f[4], e>> /\ EnvOf(f) = EnvName(r)
                           => f = FileName(r, e)
           /\ \A f : EnvOf(f)[5] = "env"
           /\ \A f, e : f = <<f[1], f[2], f[3], f[4], e>> => f[5] = e
<1>1. \A f, e : f = <<f[1], f[2], f[3], f[4], e>> => f[5] = e
  OBVIOUS
<1>2. \A f, e : f = <<f[1], f[2], f[3], f[4], e>> /\ EnvOf(f) = EnvName(r)
                  => f = FileName(r, e)
  BY DEF EnvOf, EnvName, FileName
<1> QED
  BY <1>1, <1>2 DEF EnvOf, EnvName, FileName

(* An output file is never an environment file, and holds pressures        *)
(* exactly if the request is for them.                                     *)
LEMMA EndingFacts ==
    ASSUME NEW r
    PROVE  /\ Ending(r) # "env"
           /\ Ending(r) = "shd" <=> Pressure(r)
           /\ EnvName(r)[5] = "env" /\ OutputName(r)[5] = Ending(r)
           /\ EnvName(r) # OutputName(r)
<1>1. Ending(r) # "env" /\ (Ending(r) = "shd" <=> Pressure(r))
  BY DEF Ending
<1>2. EnvName(r)[5] = "env" /\ OutputName(r)[5] = Ending(r)
  BY NameFacts DEF EnvName, OutputName
<1> QED
  BY <1>1, <1>2

(* One more response leaves the others where they are.                     *)
LEMMA OneMore ==
    ASSUME IsSeq(response), NEW a, response' = Append(response, a)
    PROVE  /\ IsSeq(response)'
           /\ Len(response) \in Nat /\ Len(response') = Len(response) + 1
           /\ DOMAIN response = 1..Len(response)
           /\ DOMAIN response' = 1..(Len(response) + 1)
           /\ \A k \in 1..Len(response) : response'[k] = response[k]
           /\ response'[Len(response) + 1] = a
<1>1. PICK S : response \in Seq(S)
  BY DEF IsSeq
<1>2. response \in Seq(S \cup {a}) /\ a \in S \cup {a}
  BY <1>1
<1>3. response' \in Seq(S \cup {a})
  BY <1>2, AppendProperties
<1>4. IsSeq(response)'
  BY <1>3 DEF IsSeq
<1>5. /\ Len(response) \in Nat /\ Len(response') = Len(response) + 1
      /\ \A k \in 1..Len(response) : response'[k] = response[k]
      /\ response'[Len(response) + 1] = a
  BY <1>2, AppendProperties
<1>6. DOMAIN response = 1..Len(response) /\ DOMAIN response' = 1..Len(response')
  BY <1>2, <1>3
<1> QED
  BY <1>4, <1>5, <1>6

(* Whether the streams were closed for a request does not depend on later  *)
(* ones; an exception leaves them open and a refusal as they are.          *)
LEMMA FreshFacts ==
    ASSUME IsSeq(response), NEW a, response' = Append(response, a)
    PROVE  /\ \A k \in 1..(Len(response) + 1) : Fresh(k)' <=> Fresh(k)
           /\ a.result = "thrown" => ~Fresh(Len(response) + 1)'
           /\ a.result = "refused" => (Fresh(Len(response) + 1)' => Fresh(Len(response) + 1))
<1>1. /\ Len(response) \in Nat /\ Len(response') = Len(response) + 1
      /\ \A k \in 1..Len(response) : response'[k] = response[k]
      /\ response'[Len(response')] = a
  BY OneMore
<1>2. ASSUME NEW k \in 1..(Len(response) + 1) PROVE Fresh(k)' <=> Fresh(k)
  <2>1. 1..(k - 1) \subseteq 1..Len(response)
    BY <1>1
  <2>2. \A j \in 1..(k - 1) : (j + 1)..(k - 1) \subseteq 1..Len(response)
    BY <1>1
  <2> QED BY <1>1, <2>1, <2>2 DEF Fresh
<1>3. Fresh(Len(response) + 1)' <=>
        \A j \in 1..Len(response') : response'[j].result = "thrown" =>
            \E i \in (j + 1)..Len(response') : response'[i].result \in {"written", "failed"}
  <2>1. (Len(response') + 1) - 1 = Len(response')
    BY <1>1
  <2> QED BY <2>1 DEF Fresh
<1>4. Fresh(Len(response) + 1) <=>
        \A j \in 1..Len(response) : response[j].result = "thrown" =>
            \E i \in (j + 1)..Len(response) : response[i].result \in {"written", "failed"}
  <2>1. (Len(response) + 1) - 1 = Len(response)
    BY <1>1
  <2> QED BY <2>1 DEF Fresh
<1>5. a.result = "thrown" => ~Fresh(Len(response) + 1)'
  <2>1. Len(response') \in 1..Len(response') /\ (Len(response') + 1)..Len(response') = {}
    BY <1>1
  <2> QED BY <1>1, <1>3, <2>1
<1>6. ASSUME a.result = "refused", Fresh(Len(response) + 1)'
      PROVE  Fresh(Len(response) + 1)
  <2> SUFFICES ASSUME NEW j \in 1..Len(response), response[j].result = "thrown"
               PROVE  \E i \in (j + 1)..Len(response) : response[i].result \in {"written", "failed"}
    BY <1>4
  <2>1. j \in 1..Len(response') /\ response'[j].result = "thrown"
    BY <1>1
  <2>2. PICK i \in (j + 1)..Len(response') : response'[i].result \in {"written", "failed"}
    BY <1>3, <1>6, <2>1
  <2>3. i # Len(response')
    BY <1>1, <1>6, <2>2
  <2>4. i \in (j + 1)..Len(response) /\ i \in 1..Len(response)
    BY <1>1, <2>2, <2>3
  <2> QED BY <1>1, <2>2, <2>4
<1> QED
  BY <1>2, <1>5, <1>6

-----------------------------------------------------------------------------
(* A step that answers nothing keeps the invariant.                        *)
LEMMA MailKeeps ==
    ASSUME FileInv, UNCHANGED <<streams, files, shdfil, ascfil, response>>
    PROVE  FileInv'
BY DEF FileInv, StreamsTold, Named, Contents, Latest, OwnOutput, ShdfilOfPressure,
       AscfilOfPressure, LastConverted, TLInRange, TLOfRequest, Fresh, Answered

(* What read_shd does for a response, and that a refusal does nothing.     *)
ShdRead(r, a) ==
    /\ ascfil' = IF a.converted THEN shdfil' ELSE ascfil
    /\ \/ a.result = "refused" /\ a.tl = 0 /\ ~a.converted
       \/ a.tl = (IF r.read_shd THEN ascfil' ELSE 0) /\ (a.converted => r.read_shd)

(* If SHDFIL is right once a request has been carried out, so are ASCFIL   *)
(* and what is reported of it, for this request and for those before it.   *)
LEMMA LossKeeps ==
    ASSUME FileInv, NEW r, NEW a, response' = Append(response, a), a.request = r,
           ShdRead(r, a), ShdfilOfPressure',
           (a.result = "written" /\ Fresh(Len(response) + 1) /\ Pressure(r))
              => shdfil' = Len(response) + 1
    PROVE  AscfilOfPressure' /\ LastConverted' /\ TLInRange' /\ TLOfRequest'
<1> DEFINE n == Len(response) + 1
<1>1. /\ IsSeq(response) /\ IsSeq(response)'
      /\ Len(response) \in Nat /\ Len(response') = n
      /\ DOMAIN response = 1..Len(response) /\ DOMAIN response' = 1..n
      /\ \A k \in 1..Len(response) : response'[k] = response[k]
      /\ response'[n] = a
  BY OneMore DEF FileInv, StreamsTold
<1>2. \A k \in 1..n : Fresh(k)' <=> Fresh(k)
  BY <1>1, FreshFacts
<1>3. AscfilOfPressure'
  <2>1. CASE a.converted
    <3>1. ascfil' = shdfil'
      BY <2>1 DEF ShdRead
    <3> QED BY <3>1 DEF AscfilOfPressure, ShdfilOfPressure
  <2>2. CASE ~a.converted
    <3>1. ascfil' = ascfil
      BY <2>2 DEF ShdRead
    <3> QED BY <1>1, <3>1 DEF FileInv, AscfilOfPressure
  <2> QED BY <2>1, <2>2
<1>4. a.tl = 0 \/ a.tl = ascfil'
  BY DEF ShdRead
<1>5. a.converted => a.tl = ascfil' /\ ascfil' = shdfil'
  BY DEF ShdRead
<1>6. ~a.converted => ascfil' = ascfil
  BY DEF ShdRead
<1>7. (a.request.read_shd /\ a.result # "refused") => a.tl = ascfil'
  BY DEF ShdRead
<1>8. TLInRange'
  <2> SUFFICES ASSUME NEW k \in DOMAIN response', response'[k].tl # 0
               PROVE  response'[k].tl \in DOMAIN response'
    BY DEF TLInRange
  <2>1. CASE k = n
    BY <1>1, <1>3, <1>4, <2>1 DEF AscfilOfPressure
  <2>2. CASE k # n
    BY <1>1, <2>2 DEF FileInv, TLInRange
  <2> QED BY <2>1, <2>2
<1> HIDE DEF n
<1>9. ASSUME NEW j \in DOMAIN response', j # n, response'[j].converted,
             \A i \in (j + 1)..Len(response) : ~response'[i].converted
      PROVE  ascfil = response'[j].tl
  <2>1. j \in DOMAIN response /\ response'[j] = response[j]
    BY <1>1, <1>9 DEF n
  <2>2. \A i \in (j + 1)..Len(response) : ~response[i].converted
    BY <1>1, <1>9, <2>1
  <2> QED BY <1>9, <2>1, <2>2 DEF FileInv, LastConverted
<1>10. LastConverted'
  <2> SUFFICES ASSUME NEW j \in DOMAIN response', response'[j].converted,
                      \A i \in (j + 1)..Len(response') : ~response'[i].converted
               PROVE  ascfil' = response'[j].tl
    BY DEF LastConverted
  <2>1. CASE j = n
    BY <1>1, <1>5, <2>1
  <2>2. CASE j # n
    <3>1. n \in (j + 1)..Len(response') /\ Len(response) < Len(response')
      BY <1>1, <2>2 DEF n
    <3>2. ~a.converted
      BY <1>1, <3>1
    <3>3. \A i \in (j + 1)..Len(response) : ~response'[i].converted
      BY <1>1, <3>1 DEF n
    <3>4. ascfil = response'[j].tl
      BY <1>9, <2>2, <3>3
    <3> QED BY <1>6, <3>2, <3>4
  <2> QED BY <2>1, <2>2
<1>11. TLOfRequest'
  <2> SUFFICES ASSUME NEW k \in DOMAIN response'
               PROVE  /\ response'[k].tl # 0 =>
                            Pressure(response'[response'[k].tl].request)
                      /\ (/\ response'[k].converted /\ response'[k].result = "written"
                          /\ Fresh(k)' /\ Pressure(response'[k].request))
                         => response'[k].tl = k
                      /\ (/\ response'[k].request.read_shd /\ ~response'[k].converted
                          /\ response'[k].result # "refused") =>
                         \A j \in 1..(k - 1) :
                            (/\ response'[j].converted
                             /\ \A i \in (j + 1)..(k - 1) : ~response'[i].converted)
                            => response'[k].tl = response'[j].tl
    BY DEF TLOfRequest
  <2>1. CASE k = n
    <3>1. a.tl # 0 => Pressure(response'[a.tl].request)
      BY <1>3, <1>4 DEF AscfilOfPressure
    <3>2. (a.converted /\ a.result = "written" /\ Fresh(k)' /\ Pressure(a.request))
             => a.tl = k
      <4>1. Fresh(k)' => Fresh(Len(response) + 1)
        BY <1>1, <1>2, <2>1 DEF n
      <4> QED BY <1>5, <2>1, <4>1 DEF n
    <3>3. ASSUME a.request.read_shd, ~a.converted, a.result # "refused",
                 NEW j \in 1..(k - 1), response'[j].converted,
                 \A i \in (j + 1)..(k - 1) : ~response'[i].converted
          PROVE  a.tl = response'[j].tl
      <4>1. k - 1 = Len(response) /\ j \in DOMAIN response' /\ j # n
        BY <1>1, <2>1 DEF n
      <4>2. ascfil = response'[j].tl
        BY <1>9, <3>3, <4>1
      <4> QED BY <1>6, <1>7, <3>3, <4>2
    <3>4. response'[k] = a
      BY <1>1, <2>1
    <3> QED BY <3>1, <3>2, <3>3, <3>4, Zenon
  <2>2. CASE k # n
    <3>1. k \in 1..Len(response) /\ response'[k] = response[k] /\ (Fresh(k)' <=> Fresh(k))
          /\ k \in Nat
      BY <1>1, <1>2, <2>2 DEF n
    <3>2. response[k].tl # 0 => response[k].tl \in DOMAIN response
      BY <1>1, <3>1 DEF FileInv, TLInRange
    <3>3. response[k].tl # 0 => response'[response[k].tl] = response[response[k].tl]
      BY <1>1, <3>2
    <3>4. \A j \in 1..(k - 1) : response'[j] = response[j]
      BY <1>1, <3>1
    <3>5. \A j \in 1..(k - 1) : \A i \in (j + 1)..(k - 1) : response'[i] = response[i]
      BY <3>1, <3>4
    <3>6. k \in DOMAIN response
      BY <1>1, <3>1
    <3>7. /\ response[k].tl # 0 => Pressure(response[response[k].tl].request)
          /\ (/\ response[k].converted /\ response[k].result = "written"
              /\ Fresh(k) /\ Pressure(response[k].request))
             => response[k].tl = k
      BY <3>6 DEF FileInv, TLOfRequest
    <3>8. (/\ response[k].request.read_shd /\ ~response[k].converted
           /\ response[k].result # "refused") =>
             \A j \in 1..(k - 1) :
                (/\ response[j].converted
                 /\ \A i \in (j + 1)..(k - 1) : ~response[i].converted)
                => response[k].tl = response[j].tl
      BY <3>6 DEF FileInv, TLOfRequest
    <3>9. (/\ response'[k].request.read_shd /\ ~response'[k].converted
           /\ response'[k].result # "refused") =>
             \A j \in 1..(k - 1) :
                (/\ response'[j].converted
                 /\ \A i \in (j + 1)..(k - 1) : ~response'[i].converted)
                => response'[k].tl = response'[j].tl
      BY <3>1, <3>4, <3>5, <3>8
    <3> QED BY <3>1, <3>3, <3>7, <3>9
  <2> QED BY <2>1, <2>2
<1> QED
  BY <1>3, <1>8, <1>10, <1>11

(* A refusal keeps the invariant.                                          *)
LEMMA RefuseKeeps ==
    ASSUME FileInv, NEW r, RefuseRequest(r)
    PROVE  FileInv'
<1> DEFINE n == Len(response) + 1
           a == [request |-> r, success |-> FALSE, result |-> "refused", file |-> <<>>,
                 output |-> 0, tl |-> 0, converted |-> FALSE]
<1>0. /\ response' = Append(response, a)
      /\ UNCHANGED <<streams, files, shdfil, ascfil>>
  BY DEF RefuseRequest, Respond
<1>a. a.result = "refused" /\ a.tl = 0 /\ a.request = r /\ ~a.converted
  OBVIOUS
<1> HIDE DEF a
<1>1. /\ IsSeq(response) /\ IsSeq(response)'
      /\ Len(response) \in Nat /\ Len(response') = n
      /\ DOMAIN response = 1..Len(response) /\ DOMAIN response' = 1..n
      /\ \A k \in 1..Len(response) : response'[k] = response[k]
      /\ response'[n] = a
  BY <1>0, OneMore DEF FileInv, StreamsTold
<1>2. /\ \A k \in 1..n : Fresh(k)' <=> Fresh(k)
      /\ Fresh(Len(response) + 1)' => Fresh(Len(response) + 1)
  BY <1>0, <1>1, <1>a, FreshFacts
<1>3. StreamsTold'
  BY <1>0, <1>1, <1>2 DEF FileInv, StreamsTold
<1>4. \A k \in DOMAIN response' : Answered(k)' => k \in DOMAIN response /\ Answered(k)
  BY <1>1, <1>a DEF Answered
<1>5. Named'
  BY <1>0, <1>1, <1>4 DEF FileInv, Named
<1>6. Contents'
  <2> SUFFICES ASSUME NEW f \in DOMAIN files
               PROVE  /\ files[f] \in Int
                      /\ files[f] > 0 => files[f] \in DOMAIN response'
                      /\ f[5] # "env" =>
                            \/ files[f] = 0
                            \/ files[f] > 0 /\ Ending(response'[files[f]].request) = f[5]
                      /\ f[5] = "env" /\ files[f] > 0 =>
                            Answered(files[f])' /\ EnvOf(response'[files[f]].file) = f
    BY <1>0 DEF Contents, Answered
  <2>1. files[f] \in DOMAIN response => response'[files[f]] = response[files[f]]
    BY <1>1
  <2>2. files[f] \in DOMAIN response => files[f] \in DOMAIN response'
    BY <1>1
  <2> QED BY <1>0, <2>1, <2>2 DEF FileInv, Contents, Answered
<1>7. Latest'
  BY <1>0, <1>1, <1>2, <1>4 DEF FileInv, Latest
<1>8. OwnOutput'
  <2> SUFFICES ASSUME NEW k \in DOMAIN response', response'[k].result = "written", Fresh(k)'
               PROVE  /\ response'[k].output = k
                      /\ \/ files[response'[k].file] = k
                         \/ \E j \in (k + 1)..Len(response') : response'[j].file = response'[k].file
    BY <1>0 DEF OwnOutput
  <2>1. k \in 1..Len(response) /\ response[k].result = "written" /\ Fresh(k)
        /\ response'[k] = response[k]
    BY <1>1, <1>2, <1>a
  <2>2. /\ response[k].output = k
        /\ \/ files[response[k].file] = k
           \/ \E j \in (k + 1)..Len(response) : response[j].file = response[k].file
    BY <1>1, <2>1 DEF FileInv, OwnOutput
  <2> QED BY <1>1, <2>1, <2>2
<1>9. ShdfilOfPressure'
  BY <1>0, <1>1 DEF FileInv, ShdfilOfPressure
<1>10. ShdRead(r, a)
  BY <1>0, <1>a DEF ShdRead
<1>11. AscfilOfPressure' /\ LastConverted' /\ TLInRange' /\ TLOfRequest'
  <2>1. a.result # "written"
    BY <1>a
  <2> QED BY <1>0, <1>a, <1>9, <1>10, <2>1, LossKeeps
<1> QED
  BY <1>3, <1>5, <1>6, <1>7, <1>8, <1>9, <1>11 DEF FileInv

(* What handle_request publishes goes with what calculate_env has done.    *)
Answers(r, ran, a) ==
    /\ response' = Append(response, a)
    /\ a.request = r /\ ShdRead(r, a)
    /\ \/ /\ a.result = "thrown"
          /\ Thrown(r, Len(response) + 1)
       \/ /\ a.result = IF ran THEN "written" ELSE "failed"
          /\ a.file = OutputName(r) /\ a.output = files'[OutputName(r)]
          /\ Calculated(r, Len(response) + 1, ran)

(* A request that is carried out is answered so.                           *)
LEMMA HandleShape ==
    ASSUME NEW r, NEW outcome \in {"thrown", "written"}, NEW ran \in BOOLEAN,
           NEW converted \in BOOLEAN, HandleRequest(r, outcome, ran, converted)
    PROVE  \E a : Answers(r, ran, a)
<1> DEFINE written == outcome = "written"
           a == [request |-> r, success |-> TRUE,
                 result |-> IF written /\ ~ran THEN "failed" ELSE outcome,
                 file |-> IF written THEN OutputName(r) ELSE <<>>,
                 output |-> IF written THEN files'[OutputName(r)] ELSE 0,
                 tl |-> IF r.read_shd THEN ascfil' ELSE 0,
                 converted |-> converted,
                 receivers |-> Receivers(r),
                 source_depth |-> SourceDepth(r)]
<1>1. response' = Append(response, a)
  BY DEF HandleRequest, Respond
<1>2. /\ a.request = r /\ a.tl = (IF r.read_shd THEN ascfil' ELSE 0)
      /\ a.converted = converted
      /\ a.result = IF written /\ ~ran THEN "failed" ELSE outcome
      /\ written => a.file = OutputName(r) /\ a.output = files'[OutputName(r)]
  OBVIOUS
<1>3. \/ outcome = "thrown" /\ Thrown(r, Len(response) + 1)
      \/ outcome = "written" /\ Calculated(r, Len(response) + 1, ran)
  BY Zenon DEF HandleRequest
<1>4. "thrown" # "written"
  OBVIOUS
<1> HIDE DEF a
<1>5. ShdRead(r, a)
  <2>1. /\ ascfil' = IF converted THEN shdfil' ELSE ascfil
        /\ converted => r.read_shd
    BY Zenon DEF HandleRequest, ReadShd, Converted
  <2> QED BY <1>2, <2>1 DEF ShdRead
<1>6. \/ a.result = "thrown" /\ Thrown(r, Len(response) + 1)
      \/ /\ a.result = IF ran THEN "written" ELSE "failed"
         /\ a.file = OutputName(r) /\ a.output = files'[OutputName(r)]
         /\ Calculated(r, Len(response) + 1, ran)
  BY <1>2, <1>3, <1>4, Zenon
<1>7. Answers(r, ran, a)
  BY <1>1, <1>2, <1>5, <1>6 DEF Answers
<1> QED
  BY <1>7

(* An exception in output_env keeps the invariant: it spoils the environment *)
(* file of the request and nothing else.                                    *)
LEMMA ThrownKeeps ==
    ASSUME FileInv, NEW r, NEW a, response' = Append(response, a), a.result = "thrown",
           a.request = r, ShdRead(r, a), Thrown(r, Len(response) + 1)
    PROVE  FileInv'
<1> DEFINE n == Len(response) + 1
           E == EnvName(r)
<1>1. /\ IsSeq(response) /\ IsSeq(response)'
      /\ Len(response) \in Nat /\ Len(response') = n
      /\ DOMAIN response = 1..Len(response) /\ DOMAIN response' = 1..n
      /\ \A k \in 1..Len(response) : response'[k] = response[k]
      /\ response'[n] = a
  BY OneMore DEF FileInv, StreamsTold
<1>2. /\ \A k \in 1..n : Fresh(k)' <=> Fresh(k)
      /\ ~Fresh(Len(response) + 1)'
  BY <1>1, FreshFacts
<1>3. /\ DOMAIN files' = DOMAIN files \cup {E}
      /\ files'[E] = -n \/ files'[E] = Content(E)
      /\ \A f \in DOMAIN files \ {E} : files'[f] = files[f]
      /\ shdfil' = shdfil
  <2> DEFINE v == EnvWritten(r, -n)
  <2>1. v = -n \/ v = Content(E)
    BY DEF EnvWritten
  <2>2. /\ files' = [f \in DOMAIN files \cup {E} |-> IF f = E THEN v ELSE files[f]]
        /\ shdfil' = shdfil
    BY DEF Thrown
  <2> HIDE DEF v, E, n
  <2> QED BY <2>1, <2>2
<1>4. /\ files'[E] \in Int
      /\ files'[E] > 0 => E \in DOMAIN files /\ files'[E] = files[E]
  BY <1>1, <1>3 DEF FileInv, Contents, Content
<1>5. E[5] = "env"
  BY EndingFacts
<1>6. \A k \in DOMAIN response' : Answered(k)' => k \in DOMAIN response /\ Answered(k)
  BY <1>1 DEF Answered
<1>7. StreamsTold'
  BY <1>1, <1>2 DEF StreamsTold
<1>8. Named'
  BY <1>1, <1>3, <1>6 DEF FileInv, Named
<1>9. Contents'
  <2> SUFFICES ASSUME NEW f \in DOMAIN files'
               PROVE  /\ files'[f] \in Int
                      /\ files'[f] > 0 => files'[f] \in DOMAIN response'
                      /\ f[5] # "env" =>
                            \/ files'[f] = 0
                            \/ files'[f] > 0 /\ Ending(response'[files'[f]].request) = f[5]
                      /\ f[5] = "env" /\ files'[f] > 0 =>
                            /\ response'[files'[f]].result \in {"written", "failed"}
                            /\ EnvOf(response'[files'[f]].file) = f
    BY DEF Contents, Answered
  <2>1. \A k \in DOMAIN response : k \in DOMAIN response' /\ response'[k] = response[k]
    BY <1>1
  <2>2. CASE f # E
    <3>1. f \in DOMAIN files /\ files'[f] = files[f]
      BY <1>3, <2>2
    <3>2. /\ files[f] \in Int
          /\ files[f] > 0 => files[f] \in DOMAIN response
          /\ f[5] # "env" =>
                \/ files[f] = 0
                \/ files[f] > 0 /\ Ending(response[files[f]].request) = f[5]
          /\ f[5] = "env" /\ files[f] > 0 =>
                Answered(files[f]) /\ EnvOf(response[files[f]].file) = f
      BY <3>1 DEF FileInv, Contents
    <3> QED BY <2>1, <3>1, <3>2 DEF Answered
  <2>3. CASE f = E
    <3>1. files'[f] > 0 =>
             /\ files'[f] \in DOMAIN response
             /\ Answered(files'[f]) /\ EnvOf(response[files'[f]].file) = f
      BY <1>4, <1>5, <2>3 DEF FileInv, Contents
    <3> QED BY <1>4, <1>5, <2>1, <2>3, <3>1 DEF Answered
  <2> QED BY <2>2, <2>3
<1>10. Latest'
  <2> SUFFICES ASSUME NEW k \in DOMAIN response', Answered(k)', Fresh(k)'
               PROVE  LET e == EnvOf(response'[k].file)
                      IN  e \in DOMAIN files' /\ (files'[e] > 0 => files'[e] >= k)
    BY DEF Latest
  <2>1. k \in DOMAIN response /\ Answered(k) /\ Fresh(k) /\ response'[k] = response[k]
    BY <1>1, <1>2, <1>6
  <2> DEFINE e == EnvOf(response[k].file)
  <2>2. e \in DOMAIN files /\ (files[e] > 0 => files[e] >= k)
    BY <2>1 DEF FileInv, Latest
  <2> HIDE DEF e
  <2>3. e \in DOMAIN files' /\ (files'[e] > 0 => files'[e] >= k)
    BY <1>3, <1>4, <2>2
  <2> QED BY <2>1, <2>3 DEF e
<1>11. OwnOutput'
  <2> SUFFICES ASSUME NEW k \in DOMAIN response', response'[k].result = "written", Fresh(k)'
               PROVE  /\ response'[k].output = k
                      /\ \/ files'[response'[k].file] = k
                         \/ \E j \in (k + 1)..Len(response') : response'[j].file = response'[k].file
    BY DEF OwnOutput
  <2>1. k \in 1..Len(response) /\ response[k].result = "written" /\ Fresh(k)
        /\ response'[k] = response[k] /\ Answered(k)
    BY <1>1, <1>2 DEF Answered
  <2>2. /\ response[k].output = k
        /\ \/ files[response[k].file] = k
           \/ \E j \in (k + 1)..Len(response) : response[j].file = response[k].file
    BY <1>1, <2>1 DEF FileInv, OwnOutput
  <2> DEFINE f == response[k].file
  <2>3. /\ f = <<f[1], f[2], f[3], f[4], Ending(response[k].request)>>
        /\ f \in DOMAIN files
    BY <1>1, <2>1 DEF FileInv, Named
  <2> HIDE DEF f
  <2>4. f # E
    BY <1>5, <2>3, NameFacts, EndingFacts
  <2>5. files'[f] = files[f]
    BY <1>3, <2>3, <2>4
  <2> QED BY <1>1, <2>1, <2>2, <2>5 DEF f
<1>12. ShdfilOfPressure'
  BY <1>1, <1>3 DEF FileInv, ShdfilOfPressure
<1>13. AscfilOfPressure' /\ LastConverted' /\ TLInRange' /\ TLOfRequest'
  <2>1. a.result # "written"
    OBVIOUS
  <2> QED BY <1>12, <2>1, LossKeeps
<1> QED
  BY <1>7, <1>8, <1>9, <1>10, <1>11, <1>12, <1>13 DEF FileInv

(* What calculate_env to its end does to the files, env being what it has  *)
(* left in the environment file and P the output of its bellhop.exe: the   *)
(* environment file is the request's own or an earlier one's, and only the *)
(* output that it asks for is written.                                     *)
FilesWritten(r, ran, env, P) ==
    LET n == Len(response) + 1
        E == EnvName(r)
        O == OutputName(r)
    IN  /\ DOMAIN files \cup {E, O} \subseteq DOMAIN files'
        /\ files'[E] = env
        /\ env = n \/ (streams # <<>> /\ env = Content(E))
        /\ \A f \in DOMAIN files' \ {E} :
              \/ files'[f] = Content(f) /\ (f # O => f \in DOMAIN files)
              \/ ran /\ env > 0 /\ f = P /\ files'[f] = env
        /\ ran /\ env = n => P = O /\ files'[O] = n
        /\ env > 0 /\ env # n =>
              /\ env \in DOMAIN response /\ Answered(env)
              /\ P = response[env].file
              /\ P[5] = Ending(response[env].request)
              /\ EnvOf(P) = E /\ E \in DOMAIN files /\ files[E] = env
        /\ shdfil' = CopyToShdfil(r, files'[O])
        /\ streams' = <<>>

(* A calculation that comes to its end has written the files so.           *)
LEMMA CalculatedFiles ==
    ASSUME FileInv, NEW r, NEW ran \in BOOLEAN, Calculated(r, Len(response) + 1, ran)
    PROVE  \E env \in Int : \E P : FilesWritten(r, ran, env, P)
<1> DEFINE n == Len(response) + 1
           E == EnvName(r)
           O == OutputName(r)
           env == EnvWritten(r, n)
           asked == IF env \in DOMAIN response THEN response[env].request ELSE r
           P == FileName(r, Ending(asked))
           made == IF ran /\ env > 0 THEN {P} ELSE {}
<1>1. Len(response) \in Nat /\ DOMAIN response = 1..Len(response)
  <2>1. PICK S : response \in Seq(S)
    BY DEF FileInv, StreamsTold, IsSeq
  <2> QED BY <2>1
<1>2. env = n \/ (streams # <<>> /\ env = Content(E))
  BY DEF EnvWritten
<1>3. /\ files' = [f \in DOMAIN files \cup {E, O} \cup made |->
                     IF f \in {E} \cup made THEN env ELSE Content(f)]
      /\ streams' = <<>> /\ shdfil' = CopyToShdfil(r, files'[O])
  BY DEF Calculated, CloseStreams, Produced
<1>4. E # O /\ E[5] = "env" /\ E # P
  BY EndingFacts, NameFacts DEF EnvName
<1>5. env \in Int
  BY <1>1, <1>2 DEF FileInv, Contents, Content
<1>6. env = n => P = O
  BY <1>1 DEF OutputName
<1>7. ASSUME env > 0, env # n
      PROVE  /\ env \in DOMAIN response /\ Answered(env)
             /\ P = response[env].file
             /\ P[5] = Ending(response[env].request)
             /\ EnvOf(P) = E /\ E \in DOMAIN files /\ files[E] = env
  <2>1. E \in DOMAIN files /\ files[E] = env
    BY <1>2, <1>5, <1>7 DEF Content
  <2>2. env \in DOMAIN response /\ Answered(env) /\ EnvOf(response[env].file) = E
    BY <1>4, <1>7, <2>1 DEF FileInv, Contents
  <2>3. asked = response[env].request
    BY <2>2
  <2> DEFINE f == response[env].file
  <2>4. f = <<f[1], f[2], f[3], f[4], Ending(response[env].request)>>
    BY <2>2 DEF FileInv, Named
  <2>5. f = FileName(r, Ending(response[env].request))
    <3> HIDE DEF f, env
    <3> QED BY <2>2, <2>4, NameFacts DEF f
  <2> QED BY <2>1, <2>2, <2>3, <2>5, NameFacts
<1> HIDE DEF n, E, O, env, P
<1>8. /\ DOMAIN files \cup {E, O} \subseteq DOMAIN files'
      /\ files'[E] = env
      /\ \A f \in DOMAIN files' \ {E} :
            \/ files'[f] = Content(f) /\ (f # O => f \in DOMAIN files)
            \/ ran /\ env > 0 /\ f = P /\ files'[f] = env
  BY <1>3
<1>9. ran /\ env = n => P = O /\ files'[O] = n
  BY <1>1, <1>3, <1>4, <1>6 DEF n
<1>10. env \in Int /\ FilesWritten(r, ran, env, P)
  BY <1>2, <1>3, <1>5, <1>7, <1>8, <1>9 DEF FilesWritten, n, E, O
<1> QED
  BY <1>10

(* A calculation that comes to its end, whether bellhop.exe has succeeded   *)
(* or not, keeps the invariant.                                             *)
LEMMA CalculatedKeeps ==
    ASSUME FileInv, NEW r, NEW ran \in BOOLEAN, NEW a, response' = Append(response, a),
           a.request = r, ShdRead(r, a),
           a.result = IF ran THEN "written" ELSE "failed",
           a.file = OutputName(r), a.output = files'[OutputName(r)],
           Calculated(r, Len(response) + 1, ran)
    PROVE  FileInv'
<1> DEFINE n == Len(response) + 1
           E == EnvName(r)
           O == OutputName(r)
<1>1. /\ IsSeq(response) /\ IsSeq(response)'
      /\ Len(response) \in Nat /\ Len(response') = n
      /\ DOMAIN response = 1..Len(response) /\ DOMAIN response' = 1..n
      /\ \A k \in 1..Len(response) : response'[k] = response[k]
      /\ response'[n] = a
  BY OneMore DEF FileInv, StreamsTold
<1>2. \A k \in 1..n : Fresh(k)' <=> Fresh(k)
  BY <1>1, FreshFacts
<1>a. PICK env \in Int : \E P : FilesWritten(r, ran, env, P)
  BY CalculatedFiles
<1>b. PICK P : FilesWritten(r, ran, env, P)
  BY <1>a
<1>3. /\ env \in Int
      /\ DOMAIN files \cup {E, O} \subseteq DOMAIN files'
      /\ files'[E] = env
      /\ env = n \/ (streams # <<>> /\ env = Content(E))
      /\ \A f \in DOMAIN files' \ {E} :
               \/ files'[f] = Content(f) /\ (f # O => f \in DOMAIN files)
               \/ ran /\ env > 0 /\ f = P /\ files'[f] = env
      /\ ran /\ env = n => P = O /\ files'[O] = n
      /\ env > 0 /\ env # n =>
            /\ env \in DOMAIN response /\ Answered(env)
            /\ P = response[env].file
            /\ P[5] = Ending(response[env].request)
            /\ EnvOf(P) = E /\ E \in DOMAIN files /\ files[E] = env
      /\ shdfil' = CopyToShdfil(r, files'[O])
      /\ streams' = <<>>
  BY <1>a, <1>b DEF FilesWritten, n, E, O
<1>4. E[5] = "env" /\ O[5] = Ending(r) /\ E # O /\ Ending(r) # "env" /\ EnvOf(O) = E
  BY EndingFacts, NameFacts DEF OutputName
<1>5. Fresh(n) => env = n
  BY <1>3 DEF FileInv, StreamsTold
<1>6. \A k \in 1..Len(response) : Answered(k)' <=> Answered(k)
  BY <1>1 DEF Answered
<1>7. O = <<O[1], O[2], O[3], O[4], Ending(r)>>
  BY DEF OutputName, FileName
<1>8. env > 0 => /\ env \in 1..n /\ response'[env].result \in {"written", "failed"}
                 /\ EnvOf(response'[env].file) = E
  <2>1. CASE env = n
    BY <1>1, <1>4, <2>1
  <2>2. CASE env # n
    BY <1>1, <1>3, <2>2 DEF Answered
  <2> QED BY <2>1, <2>2
<1>9. env > 0 /\ ran => P[5] = Ending(response'[env].request)
  BY <1>1, <1>3, <1>4
<1> HIDE DEF n, E, O
<1>10. StreamsTold'
  BY <1>1, <1>3 DEF StreamsTold
<1>11. Named'
  <2> SUFFICES ASSUME NEW k \in DOMAIN response', Answered(k)'
               PROVE  LET f == response'[k].file
                      IN  /\ f = <<f[1], f[2], f[3], f[4], Ending(response'[k].request)>>
                          /\ f \in DOMAIN files'
    BY DEF Named
  <2>1. CASE k = n
    BY <1>1, <1>3, <1>7, <2>1 DEF O
  <2>2. CASE k # n
    <3>1. k \in DOMAIN response /\ Answered(k) /\ response'[k] = response[k]
      BY <1>1, <1>6, <2>2 DEF n
    <3> QED BY <1>3, <3>1 DEF FileInv, Named
  <2> QED BY <2>1, <2>2
<1>12. \A f \in DOMAIN files : \/ files[f] = 0
                               \/ /\ files[f] \in Int
                                  /\ files[f] > 0 => files[f] \in 1..n
                                        /\ response'[files[f]] = response[files[f]]
  BY <1>1 DEF FileInv, Contents, n
<1>13. \A f \in DOMAIN files' \ {E} :
          \/ f # O /\ f \in DOMAIN files /\ files'[f] = files[f]
          \/ files'[f] = 0
          \/ /\ files'[f] > 0 /\ files'[f] \in 1..n
             /\ Ending(response'[files'[f]].request) = f[5]
             /\ f[5] # "env"
  <2> SUFFICES ASSUME NEW f \in DOMAIN files', f # E
               PROVE  \/ f # O /\ f \in DOMAIN files /\ files'[f] = files[f]
                      \/ files'[f] = 0
                      \/ /\ files'[f] > 0 /\ files'[f] \in 1..n
                         /\ Ending(response'[files'[f]].request) = f[5]
                         /\ f[5] # "env"
    OBVIOUS
  <2>1. CASE ran /\ env > 0 /\ f = P /\ files'[f] = env
    BY <1>8, <1>9, <2>1, EndingFacts
  <2>2. CASE files'[f] = Content(f) /\ f # O
    BY <1>3, <2>2 DEF Content
  <2>3. CASE files'[f] = Content(f) /\ f = O /\ f \in DOMAIN files
    <3>1. files'[f] = files[f]
      BY <2>3 DEF Content
    <3>2. files[f] = 0 \/ (files[f] > 0 /\ files[f] \in DOMAIN response
                             /\ Ending(response[files[f]].request) = f[5])
      BY <1>4, <2>3 DEF FileInv, Contents
    <3>3. files[f] \in DOMAIN response =>
             files[f] \in 1..n /\ response'[files[f]] = response[files[f]]
      BY <1>1 DEF n
    <3> QED BY <1>4, <2>3, <3>1, <3>2, <3>3
  <2>4. CASE files'[f] = Content(f) /\ f \notin DOMAIN files
    BY <2>4 DEF Content
  <2> QED BY <1>3, <2>1, <2>2, <2>3, <2>4
<1>14. Contents'
  <2> SUFFICES ASSUME NEW f \in DOMAIN files'
               PROVE  /\ files'[f] \in Int
                      /\ files'[f] > 0 => files'[f] \in DOMAIN response'
                      /\ f[5] # "env" =>
                            \/ files'[f] = 0
                            \/ files'[f] > 0 /\ Ending(response'[files'[f]].request) = f[5]
                      /\ f[5] = "env" /\ files'[f] > 0 =>
                            /\ response'[files'[f]].result \in {"written", "failed"}
                            /\ EnvOf(response'[files'[f]].file) = f
    BY DEF Contents, Answered
  <2>1. CASE f = E
    BY <1>1, <1>3, <1>4, <1>8, <2>1
  <2>2. CASE f # E /\ f \in DOMAIN files /\ files'[f] = files[f]
    <3>1. /\ files[f] \in Int
          /\ files[f] > 0 => files[f] \in DOMAIN response
          /\ f[5] # "env" =>
                \/ files[f] = 0
                \/ files[f] > 0 /\ Ending(response[files[f]].request) = f[5]
          /\ f[5] = "env" /\ files[f] > 0 =>
                Answered(files[f]) /\ EnvOf(response[files[f]].file) = f
      BY <2>2 DEF FileInv, Contents
    <3>2. files[f] \in DOMAIN response =>
             files[f] \in DOMAIN response' /\ response'[files[f]] = response[files[f]]
      BY <1>1 DEF n
    <3> QED BY <2>2, <3>1, <3>2 DEF Answered
  <2>3. CASE f # E /\ ~(f \in DOMAIN files /\ files'[f] = files[f])
    BY <1>1, <1>13, <2>3
  <2> QED BY <2>1, <2>2, <2>3
<1>15. Latest'
  <2> SUFFICES ASSUME NEW k \in DOMAIN response', Answered(k)', Fresh(k)'
               PROVE  LET e == EnvOf(response'[k].file)
                      IN  e \in DOMAIN files' /\ (files'[e] > 0 => files'[e] >= k)
    BY DEF Latest
  <2>1. CASE k = n
    <3>1. env = n
      BY <1>1, <1>2, <1>5, <2>1
    <3>2. EnvOf(response'[k].file) = E
      BY <1>1, <1>4, <2>1 DEF O
    <3> QED BY <1>1, <1>3, <2>1, <3>1, <3>2 DEF n
  <2>2. CASE k # n
    <3>1. k \in DOMAIN response /\ Answered(k) /\ Fresh(k) /\ response'[k] = response[k] /\ k < n
          /\ k \in Nat
      BY <1>1, <1>2, <1>6, <2>2 DEF n
    <3> DEFINE e == EnvOf(response[k].file)
    <3>2. e \in DOMAIN files /\ (files[e] > 0 => files[e] >= k) /\ e[5] = "env"
      BY <3>1, NameFacts DEF FileInv, Latest
    <3> HIDE DEF e
    <3>3. CASE e = E
      <4>1. files'[e] = n \/ files'[e] = files[e]
        BY <1>3, <3>2, <3>3 DEF Content
      <4> QED BY <1>1, <1>3, <3>1, <3>2, <4>1 DEF e, n
    <3>4. CASE e # E
      <4>1. files'[e] = files[e] \/ files'[e] = 0
        BY <1>3, <1>13, <3>2, <3>4
      <4> QED BY <1>3, <3>1, <3>2, <4>1 DEF e
    <3> QED BY <3>3, <3>4
  <2> QED BY <2>1, <2>2
<1>16. OwnOutput'
  <2> SUFFICES ASSUME NEW k \in DOMAIN response', response'[k].result = "written", Fresh(k)'
               PROVE  /\ response'[k].output = k
                      /\ \/ files'[response'[k].file] = k
                         \/ \E j \in (k + 1)..Len(response') : response'[j].file = response'[k].file
    BY DEF OwnOutput
  <2>1. CASE k = n
    <3>1. ran /\ env = n
      BY <1>1, <1>2, <1>5, <2>1
    <3>2. files'[O] = n
      BY <1>3, <3>1
    <3> QED BY <1>1, <2>1, <3>2 DEF O
  <2>2. CASE k # n
    <3>1. k \in 1..Len(response) /\ response[k].result = "written" /\ Fresh(k)
          /\ response'[k] = response[k] /\ Answered(k) /\ n \in (k + 1)..Len(response')
      BY <1>1, <1>2, <2>2 DEF Answered, n
    <3> DEFINE f == response[k].file
    <3>2. /\ response[k].output = k
          /\ \/ files[f] = k
             \/ \E j \in (k + 1)..Len(response) : response[j].file = f
      BY <1>1, <3>1 DEF FileInv, OwnOutput
    <3>3. /\ f = <<f[1], f[2], f[3], f[4], Ending(response[k].request)>>
          /\ f \in DOMAIN files
      BY <1>1, <3>1 DEF FileInv, Named
    <3>4. EnvOf(f) \in DOMAIN files /\ (files[EnvOf(f)] > 0 => files[EnvOf(f)] >= k)
      BY <1>1, <3>1 DEF FileInv, Latest
    <3> HIDE DEF f
    <3>5. f # E
      BY <1>4, <3>3, NameFacts, EndingFacts
    <3>6. CASE f = O
      BY <1>1, <3>1, <3>2, <3>6 DEF f, O
    <3>7. CASE files'[f] = files[f]
      <4>1. \A j \in (k + 1)..Len(response) :
               j \in (k + 1)..Len(response') /\ response'[j] = response[j]
        BY <1>1, <3>1 DEF n
      <4> QED BY <3>1, <3>2, <3>7, <4>1 DEF f
    <3>8. CASE f # O /\ files'[f] # files[f]
      <4>1. f = P /\ ran /\ env > 0 /\ files'[f] = env
        BY <1>3, <3>3, <3>5, <3>8 DEF Content
      <4>2. env # n
        BY <1>3, <3>8, <4>1
      <4>3. /\ env \in DOMAIN response /\ P = response[env].file
            /\ EnvOf(P) = E /\ files[E] = env
        BY <1>3, <4>1, <4>2
      <4>4. env >= k
        BY <3>4, <4>1, <4>3
      <4>5. CASE env = k
        BY <3>1, <3>2, <4>1, <4>5 DEF f
      <4>6. CASE env > k
        <5>1. env \in (k + 1)..Len(response') /\ response'[env].file = f
          BY <1>1, <3>1, <4>1, <4>3, <4>6 DEF n
        <5> QED BY <3>1, <3>2, <5>1 DEF f
      <4> QED BY <3>1, <4>4, <4>5, <4>6
    <3> QED BY <3>6, <3>7, <3>8
  <2> QED BY <2>1, <2>2
<1>17. ShdfilOfPressure'
  <2> SUFFICES ASSUME shdfil' # 0
               PROVE  shdfil' \in DOMAIN response' /\ Pressure(response'[shdfil'].request)
    BY DEF ShdfilOfPressure
  <2>1. CASE Pressure(r) /\ files'[O] # 0
    <3>1. shdfil' = files'[O]
      BY <1>3, <2>1 DEF CopyToShdfil
    <3>2. /\ files'[O] \in 1..n
          /\ Ending(response'[files'[O]].request) = Ending(r)
      BY <1>3, <1>4, <1>13, <2>1
    <3> QED BY <1>1, <2>1, <3>1, <3>2, EndingFacts
  <2>2. CASE ~(Pressure(r) /\ files'[O] # 0)
    <3>1. shdfil' = shdfil
      BY <1>3, <2>2 DEF CopyToShdfil
    <3>2. shdfil \in DOMAIN response /\ Pressure(response[shdfil].request)
      BY <3>1 DEF FileInv, ShdfilOfPressure
    <3> QED BY <1>1, <3>1, <3>2 DEF n
  <2> QED BY <2>1, <2>2
<1>18. ASSUME a.result = "written", Fresh(Len(response) + 1), Pressure(r)
       PROVE  shdfil' = Len(response) + 1
  <2>1. ran /\ env = n
    BY <1>5, <1>18 DEF n
  <2>2. files'[O] = n /\ n # 0
    BY <1>1, <1>3, <2>1 DEF n
  <2> QED BY <1>3, <1>18, <2>2 DEF CopyToShdfil, n
<1>19. AscfilOfPressure' /\ LastConverted' /\ TLInRange' /\ TLOfRequest'
  BY <1>17, <1>18, LossKeeps
<1> QED
  BY <1>10, <1>11, <1>14, <1>15, <1>16, <1>17, <1>19 DEF FileInv

-----------------------------------------------------------------------------
(* Nothing has been answered and there are no files at the start.          *)
LEMMA InitFiles == Init => FileInv
<1> SUFFICES ASSUME Init PROVE FileInv
  OBVIOUS
<1>1. streams = <<>> /\ files = <<>> /\ shdfil = 0 /\ ascfil = 0 /\ response = <<>>
  BY DEF Init
<1>2. response \in Seq({}) /\ DOMAIN response = {} /\ DOMAIN files = {}
  BY <1>1
<1> QED
  BY <1>1, <1>2 DEF FileInv, StreamsTold, IsSeq, Named, Contents, Latest, OwnOutput,
                    ShdfilOfPressure, AscfilOfPressure, LastConverted, TLInRange,
                    TLOfRequest

(* Every step keeps the invariant.                                         *)
LEMMA NextFiles == FileInv /\ [Next]_vars => FileInv'
<1> SUFFICES ASSUME FileInv, [Next]_vars PROVE FileInv'
  OBVIOUS
<1>1. CASE UNCHANGED <<streams, files, shdfil, ascfil, response>>
  BY <1>1, MailKeeps
<1>2. ASSUME NEW r \in Requests, RefuseRequest(r) PROVE FileInv'
  BY <1>2, RefuseKeeps
<1>3. ASSUME NEW r \in Requests, NEW outcome \in {"thrown", "written"}, NEW ran \in BOOLEAN,
             NEW converted \in BOOLEAN, HandleRequest(r, outcome, ran, converted)
      PROVE  FileInv'
  <2>1. PICK a : Answers(r, ran, a)
    BY <1>3, HandleShape, Zenon
  <2>2. CASE a.result = "thrown" /\ Thrown(r, Len(response) + 1)
    BY <2>1, <2>2, ThrownKeeps DEF Answers
  <2>3. CASE /\ a.result = IF ran THEN "written" ELSE "failed"
             /\ a.file = OutputName(r) /\ a.output = files'[OutputName(r)]
             /\ Calculated(r, Len(response) + 1, ran)
    BY <2>1, <2>3, CalculatedKeeps DEF Answers
  <2> QED BY <2>1, <2>2, <2>3 DEF Answers
<1>4. \/ UNCHANGED <<streams, files, shdfil, ascfil, response>>
      \/ \E r \in Requests : RefuseRequest(r)
      \/ \E r \in Requests, outcome \in {"thrown", "written"}, ran, converted \in BOOLEAN :
            HandleRequest(r, outcome, ran, converted)
  BY DEF Next, vars, HandleSspUpdate, HandleSspRequest, HandleNodeReport, HandleNavX,
         HandleNav, HandleNavDepth, Handled, EndProgram, Tick
<1> QED
  BY <1>1, <1>2, <1>3, <1>4

(* The output that a response names was made by bellhop.exe from the       *)
(* environment of this very request, unless the request before it has      *)
(* thrown, and stays so until the file is named in a later response:       *)
(* calculate_env, whatever the requests, their number and their failures.  *)
THEOREM OutputOfTheRequest == Spec => []OwnOutput
<1>1. FileInv => OwnOutput
  BY DEF FileInv
<1> QED
  BY InitFiles, NextFiles, <1>1, PTL DEF Spec

(* The transmission loss that read_shd puts into a response was calculated *)
(* for pressure.  For a pressure request that has succeeded and has been   *)
(* converted it is that request's own; if toasc.exe has failed it is what  *)
(* the last conversion has left in ASCFIL.                                 *)
THEOREM LossOfTheRequest == Spec => []TLOfRequest
<1>1. FileInv => TLOfRequest
  BY DEF FileInv
<1> QED
  BY InitFiles, NextFiles, <1>1, PTL DEF Spec

-----------------------------------------------------------------------------
(* A vehicle that has been heard of is found under its name in lower case. *)
ReportsInv ==
    /\ IsSeq(response)
    /\ Ownship = Lower[Ownship] => heard \subseteq DOMAIN node_reports_

(* Storing a report under a name in lower case keeps the vehicles found.   *)
LEMMA ReportedKeeps ==
    ASSUME ReportsInv, NEW name, NEW fields, Reported(name, fields), UNCHANGED response,
           Ownship = Lower[Ownship] => name = Lower[name]
    PROVE  ReportsInv'
<1>1. DOMAIN node_reports_' = DOMAIN node_reports_ \cup {name} /\ heard' = heard \cup {Lower[name]}
  BY DEF Reported
<1> QED
  BY <1>1 DEF ReportsInv

(* Every step keeps the vehicles found.                                    *)
LEMMA NextReports == ReportsInv /\ [Next]_vars => ReportsInv'
<1> SUFFICES ASSUME ReportsInv, [Next]_vars PROVE ReportsInv'
  OBVIOUS
<1>1. CASE UNCHANGED <<response, node_reports_, heard>>
  BY <1>1 DEF ReportsInv
<1>2. ASSUME NEW msg \in Reports, HandleNodeReport(msg) PROVE ReportsInv'
  BY <1>2, ConstantsAssumption, ReportedKeeps DEF HandleNodeReport, Handled
<1>3. ASSUME HandleNavX PROVE ReportsInv'
  BY <1>3, ReportedKeeps DEF HandleNavX, Handled
<1>4. ASSUME NEW msg \in NavUpdates, HandleNav(msg) \/ HandleNavDepth(msg) PROVE ReportsInv'
  <2>1. PICK fields : Reported(Ownship, fields)
    BY <1>4 DEF HandleNav, HandleNavDepth
  <2>2. UNCHANGED response
    BY <1>4 DEF HandleNav, HandleNavDepth, Handled
  <2> QED BY <2>1, <2>2, ReportedKeeps
<1>5. ASSUME NEW a, response' = Append(response, a), UNCHANGED <<node_reports_, heard>>
      PROVE  ReportsInv'
  BY <1>5, OneMore DEF ReportsInv
<1>6. \/ UNCHANGED <<response, node_reports_, heard>>
      \/ \E msg \in Reports : HandleNodeReport(msg)
      \/ HandleNavX
      \/ \E msg \in NavUpdates : HandleNav(msg) \/ HandleNavDepth(msg)
      \/ \E a : response' = Append(response, a) /\ UNCHANGED <<node_reports_, heard>>
  <2>1. ASSUME NEW r \in Requests, RefuseRequest(r)
        PROVE  \E a : response' = Append(response, a) /\ UNCHANGED <<node_reports_, heard>>
    BY <2>1 DEF RefuseRequest, Respond
  <2>2. ASSUME NEW r \in Requests, NEW outcome \in {"thrown", "written"}, NEW ran \in BOOLEAN,
               NEW converted \in BOOLEAN, HandleRequest(r, outcome, ran, converted)
        PROVE  \E a : response' = Append(response, a) /\ UNCHANGED <<node_reports_, heard>>
    <3>1. PICK a : Answers(r, ran, a)
      BY <2>2, HandleShape, Zenon
    <3>2. UNCHANGED <<node_reports_, heard>>
      BY <2>2, Zenon DEF HandleRequest
    <3> QED BY <3>1, <3>2 DEF Answers
  <2>3. \/ UNCHANGED <<response, node_reports_, heard>>
        \/ \E msg \in Reports : HandleNodeReport(msg)
        \/ HandleNavX
        \/ \E msg \in NavUpdates : HandleNav(msg) \/ HandleNavDepth(msg)
        \/ \E r \in Requests : RefuseRequest(r)
        \/ \E r \in Requests, outcome \in {"thrown", "written"}, ran, converted \in BOOLEAN :
              HandleRequest(r, outcome, ran, converted)
    BY DEF Next, vars, HandleSspUpdate, HandleSspRequest, Handled, EndProgram, Tick
  <2> QED BY <2>1, <2>2, <2>3
<1> QED
  BY <1>1, <1>2, <1>3, <1>4, <1>5, <1>6

(* A request is turned down only for its number of receivers, or because a *)
(* vehicle has not reported, or because Ownship is configured in upper     *)
(* case: a name that a report or a request spells otherwise is no cause.   *)
THEOREM NoneRefusedWithoutCause == Spec => RefusedForCause
<1> DEFINE Cause(r) == \/ TooManyReceivers(r) \/ Ownship # Lower[Ownship]
                       \/ ~({Self(r), Other(r)} \subseteq heard)
           Refused == (response' # response /\ Last(response').result = "refused") =>
                         Cause(Last(response').request)
<1>1. Init => ReportsInv
  <2> SUFFICES ASSUME Init PROVE ReportsInv
    OBVIOUS
  <2>1. response \in Seq({}) /\ heard = {}
    BY DEF Init
  <2> QED BY <2>1 DEF ReportsInv, IsSeq
<1>2. ReportsInv /\ [Next]_vars => [Refused]_vars
  <2> SUFFICES ASSUME ReportsInv, Next, response' # response,
                      Last(response').result = "refused"
               PROVE  Cause(Last(response').request)
    OBVIOUS
  <2>1. ASSUME NEW a, response' = Append(response, a) PROVE Last(response') = a
    BY <2>1, OneMore DEF ReportsInv, Last
  <2>2. ASSUME NEW r \in Requests, RefuseRequest(r) PROVE Cause(Last(response').request)
    <3>1. Last(response').request = r
      BY <2>1, <2>2 DEF RefuseRequest, Respond
    <3>2. TooManyReceivers(r) \/ ~PositionsKnown(r)
      BY <2>2 DEF RefuseRequest
    <3>3. ~PositionsKnown(r) => ~({Self(r), Other(r)} \subseteq DOMAIN node_reports_)
      BY DEF PositionsKnown
    <3>4. Cause(r)
      BY <3>2, <3>3 DEF ReportsInv
    <3> QED BY <3>1, <3>4
  <2>3. ASSUME NEW r \in Requests, NEW outcome \in {"thrown", "written"}, NEW ran \in BOOLEAN,
               NEW converted \in BOOLEAN, HandleRequest(r, outcome, ran, converted)
        PROVE  FALSE
    <3>1. PICK a : Answers(r, ran, a)
      BY <2>3, HandleShape, Zenon
    <3>2. response' = Append(response, a) /\ a.result # "refused"
      BY <3>1 DEF Answers
    <3> QED BY <2>1, <3>2
  <2>4. \/ UNCHANGED response
        \/ \E r \in Requests : RefuseRequest(r)
        \/ \E r \in Requests, outcome \in {"thrown", "written"}, ran, converted \in BOOLEAN :
              HandleRequest(r, outcome, ran, converted)
    BY DEF Next, HandleSspUpdate, HandleSspRequest, HandleNodeReport, HandleNavX,
           HandleNav, HandleNavDepth, Handled, EndProgram, Tick
  <2> QED BY <2>2, <2>3, <2>4
<1>3. Spec => [][Refused]_vars
  BY <1>1, <1>2, NextReports, PTL DEF Spec
<1> QED
  BY <1>3 DEF RefusedForCause
=============================================================================
