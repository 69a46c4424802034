--------------------------- MODULE AtChannelProofs ---------------------------
(***************************************************************************)
(* Proofs about AtChannel for every set of threads, any of the methods,    *)
(* and any number of calls and late answers.                               *)
(*                                                                         *)
(* What the methods have in common is a condition on their scripts, which  *)
(* is shown of each of the 56 by itself: on which of them may return with  *)
(* the mutex, which may unlock with a time-out of its own, and which part  *)
(* comes next.  The invariants of the channel rest on that condition and   *)
(* on how often the owner of the recursive mutex has locked it.  A second  *)
(* condition says what each method may have left unread before each of its *)
(* steps; whose reply a method reads rests on that one.                    *)
(***************************************************************************)
EXTENDS AtChannel, FiniteSetTheorems, SequenceTheorems, WellFoundedInduction, TLAPS

-----------------------------------------------------------------------------
(* The scripts.                                                            *)

\* The two methods that may return with the mutex.
Keeping == {"mqtt_publish", "connect"}

\* The lines that methods read, and those that no method reads.
Words == {"OK", "ERROR", ">", "CONNECT", "SEND OK", "RDY", "text", "dnsgip", "dnsgip count",
          "dnsgip error", "+CREG", "+CGREG", "+CGREG unregistered", "+COPS", "+CSQ", "+QCCID",
          "+QICSGP", "+QIACT", "+QIOPEN", "+QIRD", "+QIRD 0", "+QIURC", "+QIGETERROR", "+QGPS",
          "+QGPSLOC", "+QFDWL", "+QFLDS", "+QFLST", "+QFOPEN", "+QFPOSITION", "+QFUPL",
          "+QFWRITE", "+QLTS", "+QMTCLOSE", "+QMTCONN", "+QMTOPEN", "+QMTPUB", "+QMTRECV",
          "+QSSLCFG", "+QSSLOPEN", "+QSSLRECV", "+QSSLRECV 0", "+QSSLSTATE", "+QSSLURC"}
Strays == {"+QMTSUB", "+QMTUNS", "+QMTDISC"}
Kinds  == Words \cup Strays

\* A step that reads a line of its own, or one that is sent to be answered.
StepSound(s) == /\ s.hit \in Nat /\ s.miss \in Nat
                /\ s.answers \subseteq Seq(Kinds) /\ s.kinds \subseteq Words

\* And one that does not return with the mutex.
StepTidy(s) == StepSound(s) /\ s.keeps = FALSE

StepsSound(steps) == /\ Len(steps) \in Nat
                     /\ \A i \in 1..Len(steps) : StepSound(steps[i])
StepsTidy(steps)  == /\ Len(steps) \in Nat
                     /\ \A i \in 1..Len(steps) : StepTidy(steps[i])

\* A part that gives back the time-out it sets.
PartTidy(part) == part.own => part.back = TRUE

\* A method goes from one of its parts to another, each gives back what it takes.
Tidy(parts) ==
    /\ 1 \in DOMAIN parts
    /\ \A p \in DOMAIN parts :
         /\ PartTidy(parts[p]) /\ StepsTidy(parts[p].steps)
         /\ \A next \in parts[p].then \cup parts[p].else : next # 0 => next \in DOMAIN parts

\* mqtt_publish returns with the mutex when there is no prompt.
PublishTidy(parts) == /\ DOMAIN parts = {1} /\ PartTidy(parts[1])
                      /\ parts[1].then = {0} /\ parts[1].else = {0}
                      /\ StepsSound(parts[1].steps)

\* connect returns with the mutex when it cannot store the APN, and otherwise
\* gives the mutex, but not the time-out, back between its two parts.
ConnectTidy(parts) == /\ DOMAIN parts = {1, 2} /\ PartTidy(parts[2]) /\ parts[2].back = TRUE
                      /\ parts[1].then = {2} /\ parts[1].else = {2}
                      /\ parts[2].then = {0} /\ parts[2].else = {0}
                      /\ \A p \in {1, 2} : StepsSound(parts[p].steps)

\* getRev takes any line for its reply, but not before it has sent its command and
\* read an OK.
RevTidy(parts) ==
    /\ DOMAIN parts = {1} /\ PartTidy(parts[1]) /\ parts[1].then = {0} /\ parts[1].else = {0}
    /\ Len(parts[1].steps) \in Nat
    /\ \A i \in 1..Len(parts[1].steps) : LET s == parts[1].steps[i] IN
         /\ s.hit \in Nat /\ s.miss \in Nat /\ s.keeps = FALSE
         /\ s.answers \subseteq Seq(Words) /\ s.kinds \cap Strays = {}
         /\ i = 1 => s.op = "send"
         /\ i = 2 => s.op = "recv"
         /\ i \in {1, 2} => s.kinds \subseteq Words

TableTidy == \A m \in DOMAIN Table : IF m = "connect" THEN ConnectTidy(Table[m])
                                     ELSE IF m = "mqtt_publish" THEN PublishTidy(Table[m])
                                     ELSE IF m = "getRev" THEN RevTidy(Table[m])
                                     ELSE Tidy(Table[m])

\* The steps the methods are made of.
LEMMA StepsAreTidy ==
  /\ \A answers \in SUBSET Seq(Kinds) : StepTidy(Send(answers))
  /\ \A k \in Words : StepTidy(Must(k)) /\ StepTidy(May(k))
  /\ \A k \in Words : \A n \in Nat : StepTidy(If(k, n))
  /\ END \in Nat
<1>1. ASSUME NEW answers \in SUBSET Seq(Kinds)
      PROVE  StepTidy(Send(answers))
  <2>1. <<"ERROR">> \in Seq(Kinds)
    <3>1. "ERROR" \in Kinds
      BY DEF Kinds, Words
    <3> QED  BY <3>1
  <2> DEFINE all == answers \cup {Err}
  <2>2. all \subseteq Seq(Kinds)
    BY <2>1 DEF Err
  <2> HIDE DEF all
  <2>3. Send(answers) = [Step0 EXCEPT !.op = "send", !.answers = all]
    BY Zenon DEF Send, all
  <2> QED  BY <2>2, <2>3 DEF Step0, StepTidy, StepSound
<1>2. ASSUME NEW k \in Words, NEW n \in Nat
      PROVE  StepTidy(Must(k)) /\ StepTidy(May(k)) /\ StepTidy(If(k, n))
  BY DEF Step0, Must, May, If, StepTidy, StepSound, END
<1> QED  BY <1>1, <1>2 DEF END

\* Answers of one, two and three lines.
LEMMA AnswersAre ==
  /\ \A a \in Kinds : <<a>> \in Seq(Kinds)
  /\ \A a, b \in Kinds : <<a, b>> \in Seq(Kinds)
  /\ \A a, b, c \in Kinds : <<a, b, c>> \in Seq(Kinds)
  /\ <<>> \in Seq(Kinds)
  /\ Words \subseteq Kinds /\ Strays \subseteq Kinds
  /\ Words \cap Strays = {} /\ "any" \notin Kinds
<1>1. Words \cap Strays = {} /\ "any" \notin Kinds
  BY DEF Words, Strays, Kinds
<1> QED  BY <1>1 DEF Kinds

LEMMA WordFacts ==
  /\ "OK" \in Words /\ "ERROR" \in Words /\ ">" \in Words /\ "CONNECT" \in Words
  /\ "SEND OK" \in Words /\ "RDY" \in Words /\ "text" \in Words /\ "dnsgip" \in Words
  /\ "dnsgip count" \in Words /\ "dnsgip error" \in Words /\ "+CREG" \in Words
  /\ "+CGREG" \in Words /\ "+CGREG unregistered" \in Words /\ "+COPS" \in Words
  /\ "+CSQ" \in Words /\ "+QCCID" \in Words /\ "+QICSGP" \in Words /\ "+QIACT" \in Words
  /\ "+QIOPEN" \in Words /\ "+QIRD" \in Words /\ "+QIRD 0" \in Words /\ "+QIURC" \in Words
  /\ "+QIGETERROR" \in Words /\ "+QGPS" \in Words /\ "+QGPSLOC" \in Words
  /\ "+QFDWL" \in Words /\ "+QFLDS" \in Words /\ "+QFLST" \in Words /\ "+QFOPEN" \in Words
  /\ "+QFPOSITION" \in Words /\ "+QFUPL" \in Words /\ "+QFWRITE" \in Words
  /\ "+QLTS" \in Words /\ "+QMTCLOSE" \in Words /\ "+QMTCONN" \in Words
  /\ "+QMTOPEN" \in Words /\ "+QMTPUB" \in Words /\ "+QMTRECV" \in Words
  /\ "+QSSLCFG" \in Words /\ "+QSSLOPEN" \in Words /\ "+QSSLRECV" \in Words
  /\ "+QSSLRECV 0" \in Words /\ "+QSSLSTATE" \in Words /\ "+QSSLURC" \in Words
  BY DEF Words

LEMMA OkIsTidy == StepTidy(Must("OK")) /\ StepTidy(May("OK"))
  BY WordFacts, StepsAreTidy, Zenon

\* A step that reads one of two lines, and one that says where to go on.
LEMMA EitherIsTidy ==
  ASSUME NEW k \in Words, NEW l \in Words
  PROVE  /\ StepTidy([Must(k) EXCEPT !.kinds = @ \cup {l}, !.stop = {l}])
         /\ StepTidy([If(k, END) EXCEPT !.kinds = @ \cup {l}, !.stop = {l}])
         /\ StepTidy([Must(k) EXCEPT !.hit = END, !.miss = 0])
  BY DEF Must, If, May, Step0, StepTidy, StepSound, END

\* A command with one answer, but for ERROR, or two.
LEMMA SomeAnswers ==
  /\ \A a \in Words : {<<a>>} \in SUBSET Seq(Kinds)
  /\ \A a, b \in Words : {<<a, b>>} \in SUBSET Seq(Kinds)
  /\ \A a, b, c \in Words : {<<a, b, c>>} \in SUBSET Seq(Kinds)
  /\ \A a, b, c, d \in Words : {<<a, b>>, <<c, d>>} \in SUBSET Seq(Kinds)
  /\ \A a, b, c, d, e \in Words : {<<a, b>>, <<c, d, e>>} \in SUBSET Seq(Kinds)
  BY AnswersAre

LEMMA CommandsAreTidy ==
  /\ StepTidy(Plain) /\ StepTidy(Prompted)
  /\ \A k \in Kinds : StepTidy(Asks(k)) /\ StepTidy(Starts(k))
<1>1. "OK" \in Kinds /\ ">" \in Kinds
  BY DEF Kinds, Words
<1>2. /\ {<<"OK">>} \in SUBSET Seq(Kinds) /\ {<<">">>} \in SUBSET Seq(Kinds)
      /\ \A k \in Kinds : {<<k, "OK">>} \in SUBSET Seq(Kinds) /\ {<<"OK", k>>} \in SUBSET Seq(Kinds)
  BY <1>1, AnswersAre, Zenon
<1> QED  BY <1>2, StepsAreTidy, Zenon DEF Plain, Prompted, Asks, Starts

\* Lists of tidy steps.
LEMMA ShortSteps ==
  ASSUME NEW a, NEW b, NEW c, NEW d, NEW e, NEW f, NEW g,
         StepTidy(a), StepTidy(b), StepTidy(c), StepTidy(d), StepTidy(e), StepTidy(f),
         StepTidy(g)
  PROVE  /\ StepsTidy(<<a>>) /\ StepsTidy(<<a, b>>) /\ StepsTidy(<<a, b, c>>)
         /\ StepsTidy(<<a, b, c, d>>) /\ StepsTidy(<<a, b, c, d, e>>)
         /\ StepsTidy(<<a, b, c, d, e, f>>) /\ StepsTidy(<<a, b, c, d, e, f, g>>)
  BY DEF StepsTidy

LEMMA ShortSound ==
  ASSUME NEW a, NEW b, NEW c, NEW d, NEW e, NEW f, NEW g,
         StepSound(a), StepSound(b), StepSound(c), StepSound(d), StepSound(e), StepSound(f),
         StepSound(g)
  PROVE  /\ StepsSound(<<a, b, c, d>>) /\ StepsSound(<<a, b, c, d, e, f>>)
         /\ StepsSound(<<a, b, c, d, e, f, g>>)
         /\ \E S : /\ <<a, b, c, d>> \in Seq(S) /\ <<a, b, c, d, e, f>> \in Seq(S)
                  /\ <<a, b, c, d, e, f, g>> \in Seq(S)
<1>1. /\ StepsSound(<<a, b, c, d>>) /\ StepsSound(<<a, b, c, d, e, f>>)
      /\ StepsSound(<<a, b, c, d, e, f, g>>)
  BY DEF StepsSound
<1> DEFINE S == {a, b, c, d, e, f, g}
<1>2. /\ a \in S /\ b \in S /\ c \in S /\ d \in S /\ e \in S /\ f \in S /\ g \in S
  OBVIOUS
<1> HIDE DEF S
<1>3. /\ <<a, b, c, d>> \in Seq(S) /\ <<a, b, c, d, e, f>> \in Seq(S)
      /\ <<a, b, c, d, e, f, g>> \in Seq(S)
  BY <1>2
<1> QED  BY <1>1, <1>3, Zenon

\* A part with these steps, after which these parts come, gives its time-out back.
PartIs(part, steps, then, else) ==
    part.steps = steps /\ part.then = then /\ part.else = else /\ PartTidy(part)

LEMMA PartsAre ==
  ASSUME NEW s, NEW x, NEW y
  PROVE  /\ PartIs(Default(s), s, {0}, {0}) /\ PartIs(Timed(s), s, {0}, {0})
         /\ PartIs(Followed(Default(s), x, y), s, x, y)
         /\ PartIs(Followed(Timed(s), x, y), s, x, y)
  BY DEF Default, Timed, Followed, PartIs, PartTidy

\* Methods of one, two and three parts.
LEMMA OnePart ==
  ASSUME NEW p, NEW s, PartIs(p, s, {0}, {0}), StepsTidy(s)
  PROVE  Tidy(<<p>>)
  BY DEF PartIs, Tidy

LEMMA TwoParts ==
  ASSUME NEW p, NEW s, NEW x, NEW y, PartIs(p, s, x, y), StepsTidy(s),
         NEW q, NEW r, NEW v, NEW w, PartIs(q, r, v, w), StepsTidy(r),
         x \subseteq {0, 1, 2}, y \subseteq {0, 1, 2}, v \subseteq {0, 1, 2}, w \subseteq {0, 1, 2}
  PROVE  Tidy(<<p, q>>)
<1> DEFINE parts == <<p, q>>
<1>1. DOMAIN parts = 1..2 /\ parts[1] = p /\ parts[2] = q
  OBVIOUS
<1> HIDE DEF parts
<1>2. ASSUME NEW i \in DOMAIN parts
      PROVE  /\ PartTidy(parts[i]) /\ StepsTidy(parts[i].steps)
             /\ parts[i].then \subseteq {0, 1, 2} /\ parts[i].else \subseteq {0, 1, 2}
  <2>1. i = 1 \/ i = 2
    BY <1>1
  <2> QED  BY <1>1, <2>1 DEF PartIs
<1>3. Tidy(parts)
  BY <1>1, <1>2 DEF Tidy
<1> QED  BY <1>3 DEF parts

LEMMA ThreeParts ==
  ASSUME NEW p, NEW s, NEW x, NEW y, PartIs(p, s, x, y), StepsTidy(s),
         NEW q, NEW r, NEW v, NEW w, PartIs(q, r, v, w), StepsTidy(r),
         NEW n, NEW k, PartIs(n, k, {0}, {0}), StepsTidy(k),
         x \subseteq {0, 1, 2, 3}, y \subseteq {0, 1, 2, 3},
         v \subseteq {0, 1, 2, 3}, w \subseteq {0, 1, 2, 3}
  PROVE  Tidy(<<p, q, n>>)
<1> DEFINE parts == <<p, q, n>>
<1>1. DOMAIN parts = 1..3 /\ parts[1] = p /\ parts[2] = q /\ parts[3] = n
  OBVIOUS
<1> HIDE DEF parts
<1>2. ASSUME NEW i \in DOMAIN parts
      PROVE  /\ PartTidy(parts[i]) /\ StepsTidy(parts[i].steps)
             /\ parts[i].then \subseteq {0, 1, 2, 3} /\ parts[i].else \subseteq {0, 1, 2, 3}
  <2>1. i = 1 \/ i = 2 \/ i = 3
    BY <1>1
  <2> QED  BY <1>1, <2>1 DEF PartIs
<1>3. Tidy(parts)
  BY <1>1, <1>2 DEF Tidy
<1> QED  BY <1>3 DEF parts

\* Most methods are one part, with or without a time-out of its own.
LEMMA OneSection ==
  ASSUME NEW s, StepsTidy(s)
  PROVE  Tidy(<<Default(s)>>) /\ Tidy(<<Timed(s)>>)
  BY OnePart, PartsAre

LEMMA PlainMethods ==
  /\ Tidy(tx2bg96) /\ Tidy(configure_pdp_context) /\ Tidy(getSIMStatus) /\ Tidy(disconnect)
  /\ Tidy(close) /\ Tidy(startGNSS) /\ Tidy(stopGNSS) /\ Tidy(configure_client_cert_path)
  /\ Tidy(configure_privkey_path) /\ Tidy(sslclose) /\ Tidy(fs_delete_file) /\ Tidy(fs_seek)
  /\ Tidy(fs_truncate) /\ Tidy(fs_close) /\ Tidy(send_generic_cmd)
<1> DEFINE s == <<Plain, Must("OK")>>
<1>1. StepsTidy(s)
  BY StepsAreTidy, CommandsAreTidy, OkIsTidy, AnswersAre, ShortSteps
<1> HIDE DEF s
<1>2. Tidy(<<Default(s)>>) /\ Tidy(<<Timed(s)>>)
  BY <1>1, OneSection
<1> QED  BY <1>2 DEF s, tx2bg96, configure_pdp_context, getSIMStatus, disconnect, close,
               startGNSS, stopGNSS, configure_client_cert_path, configure_privkey_path,
               sslclose, fs_delete_file, fs_seek, fs_truncate, fs_close, send_generic_cmd

\* A question, its answer, and the OK that some of them leave unread.
LEMMA AskingMethods ==
  /\ Tidy(getCSServiceStatus) /\ Tidy(getRSSI) /\ Tidy(getMACAddress) /\ Tidy(<<getError>>)
  /\ Tidy(rxAvail) /\ Tidy(isGNSSOn) /\ Tidy(updateGNSSLoc) /\ Tidy(ssl_client_status)
  /\ Tidy(fs_size) /\ Tidy(fs_nfiles) /\ Tidy(fs_file_size) /\ Tidy(fs_open)
  /\ Tidy(fs_get_offset) /\ Tidy(getLatesSyncTime) /\ Tidy(mqtt_checkAvail)
<1>1. ASSUME NEW k \in Words
      PROVE  /\ Tidy(<<Default(<<Asks(k), Must(k), Must("OK")>>)>>)
             /\ Tidy(<<Timed(<<Asks(k), Must(k), Must("OK")>>)>>)
  <2>1. StepsTidy(<<Asks(k), Must(k), Must("OK")>>)
    BY StepsAreTidy, CommandsAreTidy, OkIsTidy, AnswersAre, ShortSteps
  <2> QED  BY <2>1, OneSection
<1>2. ASSUME NEW k \in Words
      PROVE  /\ Tidy(<<Default(<<Asks(k), Must(k)>>)>>) /\ Tidy(<<Timed(<<Asks(k), Must(k)>>)>>)
  <2>1. StepsTidy(<<Asks(k), Must(k)>>)
    BY StepsAreTidy, CommandsAreTidy, OkIsTidy, AnswersAre, ShortSteps
  <2> QED  BY <2>1, OneSection
<1>3. ASSUME NEW k \in Words
      PROVE  /\ Tidy(<<Default(<<Asks(k), May(k)>>)>>) /\ Tidy(<<Timed(<<Asks(k), May(k)>>)>>)
  <2>1. StepsTidy(<<Asks(k), May(k)>>)
    BY StepsAreTidy, CommandsAreTidy, OkIsTidy, AnswersAre, ShortSteps
  <2> QED  BY <2>1, OneSection
<1>4. Tidy(<<Timed(<<May("+QMTRECV")>>)>>)
  <2>1. StepTidy(May("+QMTRECV"))
    BY WordFacts, StepsAreTidy
  <2>2. StepsTidy(<<May("+QMTRECV")>>)
    BY <2>1, ShortSteps
  <2> QED  BY <2>2, OneSection
<1> QED  BY <1>1, <1>2, <1>3, <1>4, WordFacts, Zenon
         DEF getCSServiceStatus, getRSSI, getMACAddress, getError, rxAvail, isGNSSOn,
             updateGNSSLoc, ssl_client_status, fs_size, fs_nfiles, fs_file_size, fs_open,
             fs_get_offset, getLatesSyncTime, mqtt_checkAvail

\* A command, and its result with or after its OK.
LEMMA StartingMethods ==
  /\ Tidy(sslopen) /\ Tidy(mqtt_close) /\ Tidy(mqtt_disconnect) /\ Tidy(mqtt_subscribe)
  /\ Tidy(mqtt_unsubscribe) /\ Tidy(fs_download_file) /\ Tidy(fs_read) /\ Tidy(fs_write)
<1>1. ASSUME NEW k \in Kinds
      PROVE  Tidy(<<Default(<<Starts(k), Must("OK")>>)>>) /\ Tidy(<<Timed(<<Starts(k), Must("OK")>>)>>)
  <2>1. StepsTidy(<<Starts(k), Must("OK")>>)
    BY StepsAreTidy, CommandsAreTidy, OkIsTidy, AnswersAre, ShortSteps
  <2> QED  BY <2>1, OneSection
<1>2. ASSUME NEW k \in Words
      PROVE  Tidy(<<Timed(<<Starts(k), Must("OK"), Must(k)>>)>>)
  <2>1. StepsTidy(<<Starts(k), Must("OK"), Must(k)>>)
    BY StepsAreTidy, CommandsAreTidy, OkIsTidy, AnswersAre, ShortSteps
  <2> QED  BY <2>1, OneSection
<1>3. ASSUME NEW k \in Words
      PROVE  Tidy(<<Default(<<Starts(k), Must("OK"), May(k)>>)>>)
  <2>1. StepsTidy(<<Starts(k), Must("OK"), May(k)>>)
    BY StepsAreTidy, CommandsAreTidy, OkIsTidy, AnswersAre, ShortSteps
  <2> QED  BY <2>1, OneSection
<1>4. ASSUME NEW answers \in SUBSET Seq(Kinds), NEW k \in Words, NEW l \in Words
      PROVE  Tidy(<<Timed(<<Send(answers), Must(k), Must(l)>>)>>)
  <2>1. StepsTidy(<<Send(answers), Must(k), Must(l)>>)
    BY StepsAreTidy, CommandsAreTidy, OkIsTidy, AnswersAre, ShortSteps
  <2> QED  BY <2>1, OneSection
<1>5. Tidy(fs_write)
  <2>1. /\ StepTidy(Send({<<"CONNECT">>})) /\ StepTidy(Must("CONNECT"))
        /\ StepTidy(Send({<<"+QFWRITE", "OK">>}))
    BY WordFacts, SomeAnswers, StepsAreTidy, Zenon
  <2>2. StepsTidy(<<Send({<<"CONNECT">>}), Must("CONNECT"), Send({<<"+QFWRITE", "OK">>}), Must("OK")>>)
    BY <2>1, OkIsTidy, ShortSteps
  <2> QED  BY <2>2, OneSection, Zenon DEF fs_write
<1>6. "+QMTDISC" \in Kinds /\ "+QMTSUB" \in Kinds /\ "+QMTUNS" \in Kinds
  BY DEF Kinds, Strays
<1> QED  BY <1>1, <1>2, <1>3, <1>4, <1>5, <1>6, WordFacts, SomeAnswers, Zenon
         DEF sslopen, mqtt_close, mqtt_disconnect, mqtt_subscribe, mqtt_unsubscribe,
             fs_download_file, fs_read

\* Methods that do not read all they are sent, or read what they find.
LEMMA OddMethods ==
  /\ Tidy(BG96Ready) /\ Tidy(resolveUrl) /\ Tidy(getIPAddress)
  /\ Tidy(configure_cacert_path) /\ Tidy(send) /\ Tidy(sslsend) /\ Tidy(sslsend_timeout)
<1>1. Tidy(BG96Ready)
  <2> DEFINE reset == [Step0 EXCEPT !.op = "send", !.answers = {<<"RDY">>, <<>>}]
  <2>1. StepTidy(reset)
    <3>1. {<<"RDY">>, <<>>} \subseteq Seq(Kinds)
      BY WordFacts, AnswersAre, Zenon
    <3> QED  BY <3>1 DEF Step0, StepTidy, StepSound
  <2>2. BG96Ready = <<Default(<<reset, Must("RDY")>>)>>
    BY Zenon DEF BG96Ready
  <2> HIDE DEF reset
  <2>3. StepTidy(Must("RDY"))
    BY WordFacts, StepsAreTidy
  <2>4. StepsTidy(<<reset, Must("RDY")>>)
    BY <2>1, <2>3, ShortSteps
  <2> QED  BY <2>2, <2>4, OneSection
<1>2. Tidy(resolveUrl)
  <2> DEFINE answers == {<<"OK", "dnsgip error">>, <<"OK", "dnsgip count", "dnsgip">>}
             count   == [If("dnsgip count", END) EXCEPT !.kinds = @ \cup {"dnsgip error"},
                                                        !.stop = {"dnsgip error"}]
  <2>1. StepTidy(count) /\ StepTidy(Must("dnsgip")) /\ StepTidy(Send(answers))
    BY WordFacts, SomeAnswers, StepsAreTidy, EitherIsTidy, Zenon
  <2>2. resolveUrl = <<Timed(<<Send(answers), Must("OK"), count, Must("dnsgip")>>)>>
    BY Zenon DEF resolveUrl
  <2> HIDE DEF answers, count
  <2>3. StepsTidy(<<Send(answers), Must("OK"), count, Must("dnsgip")>>)
    BY <2>1, OkIsTidy, ShortSteps
  <2> QED  BY <2>2, <2>3, OneSection
<1>3. Tidy(getIPAddress)
  <2> DEFINE s == <<Asks("+QIACT"), Must("+QIACT"), Must("OK")>>
  <2>1. StepsTidy(s)
    <3>1. StepTidy(Asks("+QIACT")) /\ StepTidy(Must("+QIACT"))
      BY WordFacts, AnswersAre, StepsAreTidy, CommandsAreTidy, Zenon
    <3> QED  BY <3>1, OkIsTidy, ShortSteps
  <2> HIDE DEF s
  <2>2. PartIs([Timed(s) EXCEPT !.flush = TRUE], s, {0}, {0})
    BY DEF Timed, Default, PartIs, PartTidy
  <2> QED  BY <2>1, <2>2, OnePart DEF getIPAddress, s
<1>4. Tidy(configure_cacert_path)
  <2> DEFINE done == [Must("OK") EXCEPT !.hit = END, !.miss = 0]
  <2>1. StepTidy(done)
    BY WordFacts, EitherIsTidy, Zenon
  <2> HIDE DEF done
  <2>2. /\ StepTidy(If("+QIGETERROR", 1)) /\ StepTidy(Asks("+QIGETERROR"))
        /\ StepTidy(Asks("+QSSLCFG"))
    <3>1. 1 \in Nat
      OBVIOUS
    <3> QED  BY <3>1, WordFacts, AnswersAre, StepsAreTidy, CommandsAreTidy, Zenon
  <2>3. StepsTidy(<<Plain, done, Asks("+QIGETERROR"), If("+QIGETERROR", 1), May("OK"),
                    Asks("+QSSLCFG"), May("OK")>>)
    BY <2>1, <2>2, OkIsTidy, CommandsAreTidy, ShortSteps
  <2> QED  BY <2>3, OneSection, Zenon DEF configure_cacert_path, done
<1>5. ASSUME NEW n \in Nat, NEW answers \in SUBSET Seq(Kinds)
      PROVE  /\ Tidy(<<Timed(<<Prompted, If(">", n), Send(answers), Must("SEND OK")>>)>>)
             /\ Tidy(<<Timed(<<Prompted, If(">", n), Send(answers), May("SEND OK")>>)>>)
  <2>1. /\ StepTidy(If(">", n)) /\ StepTidy(Must("SEND OK")) /\ StepTidy(May("SEND OK"))
        /\ StepTidy(Send(answers))
    BY WordFacts, StepsAreTidy, Zenon
  <2>2. /\ StepsTidy(<<Prompted, If(">", n), Send(answers), Must("SEND OK")>>)
        /\ StepsTidy(<<Prompted, If(">", n), Send(answers), May("SEND OK")>>)
    BY <2>1, CommandsAreTidy, ShortSteps
  <2> QED  BY <2>2, OneSection
<1>6. Tidy(send) /\ Tidy(sslsend) /\ Tidy(sslsend_timeout)
  <2>1. 1 \in Nat /\ END \in Nat
    BY DEF END
  <2> QED  BY <1>5, <2>1, WordFacts, SomeAnswers, Zenon DEF send, sslsend, sslsend_timeout
<1> QED  BY <1>1, <1>2, <1>3, <1>4, <1>6

\* The parts that two methods share.
LEMMA SharedParts ==
  /\ \E s : StepsTidy(s) /\ PartIs(Upload, s, {0}, {0})
  /\ \E s : StepsTidy(s) /\ PartIs(getError, s, {0}, {0})
  /\ \E s : StepsTidy(s) /\ PartIs(ReadSocket, s, {0}, {0})
  /\ \E s : StepsTidy(s) /\ PartIs(Activate, s, {0}, {0}) /\ Activate.back = TRUE
  /\ \A x, y : \E s : StepsTidy(s) /\ PartIs(Followed(chkRxAvail, x, y), s, x, y)
<1>1. \E s : StepsTidy(s) /\ PartIs(Upload, s, {0}, {0})
  <2> DEFINE s == <<Send({<<"CONNECT">>}), Must("CONNECT"), Send({<<"+QFUPL", "OK">>}),
                    Must("+QFUPL"), May("OK")>>
  <2>1. StepsTidy(s)
    <3>1. /\ StepTidy(Send({<<"CONNECT">>})) /\ StepTidy(Must("CONNECT"))
          /\ StepTidy(Send({<<"+QFUPL", "OK">>})) /\ StepTidy(Must("+QFUPL"))
      BY WordFacts, SomeAnswers, StepsAreTidy, Zenon
    <3> QED  BY <3>1, OkIsTidy, ShortSteps
  <2>2. Upload = Timed(s)
    BY Zenon DEF Upload
  <2> HIDE DEF s
  <2> QED  BY <2>1, <2>2, PartsAre
<1>2. \E s : StepsTidy(s) /\ PartIs(getError, s, {0}, {0})
  <2> DEFINE s == <<Asks("+QIGETERROR"), Must("+QIGETERROR"), Must("OK")>>
  <2>1. StepsTidy(s)
    <3>1. StepTidy(Asks("+QIGETERROR")) /\ StepTidy(Must("+QIGETERROR"))
      BY WordFacts, AnswersAre, StepsAreTidy, CommandsAreTidy, Zenon
    <3> QED  BY <3>1, OkIsTidy, ShortSteps
  <2>2. getError = Default(s)
    BY Zenon DEF getError
  <2> HIDE DEF s
  <2> QED  BY <2>1, <2>2, PartsAre
<1>3. \E s : StepsTidy(s) /\ PartIs(ReadSocket, s, {0}, {0})
  <2> DEFINE answers == {<<"+QIRD", "OK">>, <<"+QIRD 0", "OK">>}
             data    == [Must("+QIRD") EXCEPT !.kinds = @ \cup {"+QIRD 0"}, !.stop = {"+QIRD 0"}]
             s       == <<Send(answers), data, Must("OK")>>
  <2>1. StepTidy(data) /\ StepTidy(Send(answers))
    BY WordFacts, SomeAnswers, StepsAreTidy, EitherIsTidy, Zenon
  <2>2. ReadSocket = Default(s)
    BY Zenon DEF ReadSocket
  <2> HIDE DEF data, answers
  <2>3. StepsTidy(s)
    BY <2>1, OkIsTidy, ShortSteps
  <2> HIDE DEF s
  <2> QED  BY <2>2, <2>3, PartsAre
<1>4. \E s : StepsTidy(s) /\ PartIs(Activate, s, {0}, {0}) /\ Activate.back = TRUE
  <2> DEFINE s == <<Plain, Must("OK")>>
  <2>1. StepsTidy(s)
    BY StepsAreTidy, CommandsAreTidy, OkIsTidy, AnswersAre, ShortSteps
  <2>2. Activate = Followed([Timed(s) EXCEPT !.own = FALSE], {0}, {0})
    BY Zenon DEF Activate
  <2> HIDE DEF s
  <2>3. PartIs(Activate, s, {0}, {0}) /\ Activate.back = TRUE
    BY <2>2 DEF Followed, Timed, Default, PartIs, PartTidy
  <2> QED  BY <2>1, <2>3
<1>5. ASSUME NEW x, NEW y
      PROVE  \E s : StepsTidy(s) /\ PartIs(Followed(chkRxAvail, x, y), s, x, y)
  <2> DEFINE s == <<May("+QIURC")>>
  <2>1. StepsTidy(s)
    <3>1. StepTidy(May("+QIURC"))
      BY WordFacts, StepsAreTidy
    <3> QED  BY <3>1, ShortSteps
  <2>2. chkRxAvail = Timed(s)
    BY Zenon DEF chkRxAvail
  <2> HIDE DEF s
  <2> QED  BY <2>1, <2>2, PartsAre
<1> QED  BY <1>1, <1>2, <1>3, <1>4, <1>5

\* Methods of shared parts, and of more than one.
LEMMA LongMethods ==
  /\ Tidy(connect_pdp) /\ Tidy(fs_upload_file) /\ Tidy(recv) /\ Tidy(open) /\ Tidy(send_file)
  /\ Tidy(sslrecv) /\ Tidy(mqtt_open) /\ Tidy(mqtt_connect)
<1>1. Tidy(connect_pdp) /\ Tidy(fs_upload_file)
  BY SharedParts, OnePart DEF connect_pdp, fs_upload_file
<1>2. Tidy(recv)
  <2>1. PICK s : StepsTidy(s) /\ PartIs(Followed(chkRxAvail, {2}, {2}), s, {2}, {2})
    BY SharedParts
  <2>2. PICK r : StepsTidy(r) /\ PartIs(ReadSocket, r, {0}, {0})
    BY SharedParts
  <2> QED  BY <2>1, <2>2, TwoParts DEF recv
<1>3. Tidy(open)
  <2> DEFINE p == <<Starts("+QIOPEN"), Must("OK"), Must("+QIOPEN")>>
  <2>1. StepsTidy(p)
    <3>1. StepTidy(Starts("+QIOPEN")) /\ StepTidy(Must("+QIOPEN"))
      BY WordFacts, AnswersAre, StepsAreTidy, CommandsAreTidy, Zenon
    <3> QED  BY <3>1, OkIsTidy, ShortSteps
  <2>2. open = <<Followed(Timed(p), {2}, {0}), Followed(chkRxAvail, {3}, {3}), ReadSocket>>
    BY Zenon DEF open
  <2> HIDE DEF p
  <2>3. PartIs(Followed(Timed(p), {2}, {0}), p, {2}, {0})
    BY PartsAre
  <2>4. PICK s : StepsTidy(s) /\ PartIs(Followed(chkRxAvail, {3}, {3}), s, {3}, {3})
    BY SharedParts
  <2>5. PICK r : StepsTidy(r) /\ PartIs(ReadSocket, r, {0}, {0})
    BY SharedParts
  <2> QED  BY <2>1, <2>2, <2>3, <2>4, <2>5, ThreeParts
<1>4. Tidy(send_file)
  <2> DEFINE p == <<Asks("+QFLST"), Must("+QFLST"), Must("OK")>>
             q == <<Plain, Must("OK")>>
  <2>1. StepsTidy(p) /\ StepsTidy(q)
    <3>1. StepTidy(Asks("+QFLST")) /\ StepTidy(Must("+QFLST"))
      BY WordFacts, AnswersAre, StepsAreTidy, CommandsAreTidy, Zenon
    <3> QED  BY <3>1, OkIsTidy, CommandsAreTidy, ShortSteps
  <2>2. send_file = <<Followed(Timed(p), {0, 2}, {3}), Followed(Default(q), {3}, {0}), Upload>>
    BY Zenon DEF send_file, file_exists, delete_file
  <2> HIDE DEF p, q
  <2>3. /\ PartIs(Followed(Timed(p), {0, 2}, {3}), p, {0, 2}, {3})
        /\ PartIs(Followed(Default(q), {3}, {0}), q, {3}, {0})
    BY PartsAre
  <2>4. PICK r : StepsTidy(r) /\ PartIs(Upload, r, {0}, {0})
    BY SharedParts
  <2> QED  BY <2>1, <2>2, <2>3, <2>4, ThreeParts
<1>5. Tidy(sslrecv)
  <2> DEFINE p       == <<May("+QSSLURC")>>
             answers == {<<"+QSSLRECV", "OK">>, <<"+QSSLRECV 0", "OK">>}
             data    == [Must("+QSSLRECV") EXCEPT !.kinds = @ \cup {"+QSSLRECV 0"},
                                                  !.stop = {"+QSSLRECV 0"}]
             q       == <<Send(answers), data, May("OK")>>
  <2>1. StepTidy(data) /\ StepTidy(Send(answers))
    BY WordFacts, SomeAnswers, StepsAreTidy, EitherIsTidy, Zenon
  <2>2. sslrecv = <<Followed(Timed(p), {2}, {2}), Timed(q)>>
    BY Zenon DEF sslrecv, sslChkRxAvail
  <2> HIDE DEF data, answers
  <2>3. StepsTidy(p) /\ StepsTidy(q)
    <3>1. StepTidy(May("+QSSLURC"))
      BY WordFacts, StepsAreTidy
    <3> QED  BY <2>1, <3>1, OkIsTidy, ShortSteps
  <2> HIDE DEF p, q
  <2>4. PartIs(Followed(Timed(p), {2}, {2}), p, {2}, {2}) /\ PartIs(Timed(q), q, {0}, {0})
    BY PartsAre
  <2> QED  BY <2>2, <2>3, <2>4, TwoParts
<1>6. ASSUME NEW k \in Words
      PROVE  Tidy(<<Followed(Timed(<<Starts(k), Must("OK"), May(k)>>), {0}, {2}), getError>>)
  <2> DEFINE p == <<Starts(k), Must("OK"), May(k)>>
  <2>1. StepsTidy(p)
    BY StepsAreTidy, CommandsAreTidy, OkIsTidy, AnswersAre, ShortSteps
  <2> HIDE DEF p
  <2>2. PartIs(Followed(Timed(p), {0}, {2}), p, {0}, {2})
    BY PartsAre
  <2>3. PICK r : StepsTidy(r) /\ PartIs(getError, r, {0}, {0})
    BY SharedParts
  <2>4. Tidy(<<Followed(Timed(p), {0}, {2}), getError>>)
    BY <2>1, <2>2, <2>3, TwoParts
  <2> QED  BY <2>4 DEF p
<1>7. Tidy(mqtt_open) /\ Tidy(mqtt_connect)
  BY <1>6, WordFacts, Zenon DEF mqtt_open, mqtt_connect
<1> QED  BY <1>1, <1>2, <1>3, <1>4, <1>5, <1>7

\* The step with which a method returns with the mutex.
LEMMA KeepsIsSound ==
  ASSUME NEW k \in Words
  PROVE  StepSound([Must(k) EXCEPT !.keeps = TRUE])
  BY DEF Must, Step0, StepSound, END

LEMMA SoundJoins ==
  ASSUME NEW S, NEW s \in Seq(S), NEW t \in Seq(S), StepsSound(s), StepsSound(t)
  PROVE  s \o t \in Seq(S) /\ StepsSound(s \o t)
<1>1. /\ s \o t \in Seq(S) /\ Len(s \o t) = Len(s) + Len(t)
      /\ Len(s) \in Nat /\ Len(t) \in Nat
      /\ \A i \in 1..(Len(s) + Len(t)) : (s \o t)[i] = IF i <= Len(s) THEN s[i] ELSE t[i - Len(s)]
  BY ConcatProperties, LenProperties
<1> DEFINE u == s \o t
<1> HIDE DEF u
<1>2. \A i \in 1..Len(u) : StepSound(u[i])
  <2> SUFFICES ASSUME NEW i \in 1..Len(u)  PROVE StepSound(u[i])
    OBVIOUS
  <2>1. CASE i <= Len(s)
    BY <1>1, <2>1 DEF u, StepsSound
  <2>2. CASE ~(i <= Len(s))
    <3>1. i - Len(s) \in 1..Len(t)
      BY <1>1, <2>2 DEF u
    <3> QED  BY <1>1, <2>2, <3>1 DEF u, StepsSound
  <2> QED  BY <2>1, <2>2
<1> QED  BY <1>1, <1>2 DEF u, StepsSound

\* The two that may return with the mutex.
LEMMA KeepingMethods == PublishTidy(mqtt_publish) /\ ConnectTidy(connect)
<1>1. PublishTidy(mqtt_publish)
  <2> DEFINE k == [Must(">") EXCEPT !.keeps = TRUE]
             s == <<Prompted, k, Starts("+QMTPUB"), Must("+QMTPUB")>>
  <2>1. mqtt_publish = <<Timed(s)>>
    BY Zenon DEF mqtt_publish
  <2>2. /\ StepSound(Prompted) /\ StepSound(k) /\ StepSound(Starts("+QMTPUB"))
        /\ StepSound(Must("+QMTPUB"))
    BY WordFacts, AnswersAre, StepsAreTidy, CommandsAreTidy, KeepsIsSound, Zenon DEF StepTidy
  <2> HIDE DEF k
  <2>3. StepsSound(s)
    BY <2>2, ShortSound
  <2> HIDE DEF s
  <2>4. PartIs(Timed(s), s, {0}, {0})
    BY PartsAre
  <2> QED  BY <2>1, <2>3, <2>4 DEF PartIs, PublishTidy
<1>2. ConnectTidy(connect)
  <2> DEFINE a == <<Plain, If("OK", 2 + Len(Registration)), Plain, May("OK")>>
             s == a \o Registration \o Apn
             p == Followed([Default(s) EXCEPT !.own = TRUE], {2}, {2})
  <2>1. connect = <<p, Activate>>
    BY Zenon DEF connect
  <2>2. /\ StepsSound(Registration) /\ Len(Registration) = 6
        /\ \E S : Registration \in Seq(S)
    <3> DEFINE answers == {<<"+CGREG", "OK">>, <<"+CGREG unregistered", "OK">>}
               cgreg   == [Must("+CGREG") EXCEPT !.kinds = @ \cup {"+CGREG unregistered"},
                                                 !.stop = {"+CGREG unregistered"}]
    <3>1. Registration = <<Send(answers), cgreg, Asks("+COPS"), May("+COPS"), Plain, May("OK")>>
      BY Zenon DEF Registration
    <3>2. /\ StepSound(Send(answers)) /\ StepSound(cgreg) /\ StepSound(Asks("+COPS"))
          /\ StepSound(May("+COPS")) /\ StepSound(Plain) /\ StepSound(May("OK"))
      BY WordFacts, AnswersAre, SomeAnswers, StepsAreTidy, CommandsAreTidy, EitherIsTidy, Zenon
         DEF StepTidy
    <3> HIDE DEF answers, cgreg
    <3>3. Len(Registration) = 6
      BY <3>1
    <3> QED  BY <3>1, <3>2, <3>3, ShortSound, Zenon
  <2>3. StepsSound(Apn) /\ \E S : Apn \in Seq(S)
    <3> DEFINE end == [Back EXCEPT !.hit = END]
               k   == [Must("OK") EXCEPT !.keeps = TRUE]
    <3>1. Apn = <<Asks("+QICSGP"), If("+QICSGP", 2), May("OK"), end, Back, Plain, k>>
      BY Zenon DEF Apn
    <3>2. StepSound(end) /\ StepSound(Back)
      BY DEF Back, Step0, StepSound, END
    <3>3. 2 \in Nat
      OBVIOUS
    <3>4. /\ StepSound(Asks("+QICSGP")) /\ StepSound(If("+QICSGP", 2)) /\ StepSound(May("OK"))
          /\ StepSound(Plain) /\ StepSound(k)
      BY <3>3, WordFacts, AnswersAre, StepsAreTidy, CommandsAreTidy, KeepsIsSound, Zenon
         DEF StepTidy
    <3> HIDE DEF end, k
    <3> QED  BY <3>1, <3>2, <3>4, ShortSound, Zenon
  <2>4. StepsSound(a) /\ \E S : a \in Seq(S)
    <3>1. 2 + Len(Registration) \in Nat
      BY <2>2
    <3>2. StepSound(Plain) /\ StepSound(If("OK", 2 + Len(Registration))) /\ StepSound(May("OK"))
      BY <3>1, WordFacts, StepsAreTidy, CommandsAreTidy, Zenon DEF StepTidy
    <3> QED  BY <3>2, ShortSound, Zenon
  <2>5. StepsSound(s)
    <3> HIDE DEF a
    <3>1. PICK A, B, C : a \in Seq(A) /\ Registration \in Seq(B) /\ Apn \in Seq(C)
      BY <2>2, <2>3, <2>4
    <3> DEFINE S == A \cup B \cup C
    <3>2. a \in Seq(S) /\ Registration \in Seq(S) /\ Apn \in Seq(S)
      BY <3>1, SeqMonotonic
    <3> HIDE DEF S
    <3>3. StepsSound(a \o Registration) /\ a \o Registration \in Seq(S)
      BY <2>2, <2>4, <3>2, SoundJoins
    <3> QED  BY <2>3, <3>2, <3>3, SoundJoins
  <2> HIDE DEF s
  <2>6. p.then = {2} /\ p.else = {2} /\ p.steps = s
    BY DEF Followed, Default
  <2> HIDE DEF p
  <2>7. PICK r : StepsTidy(r) /\ PartIs(Activate, r, {0}, {0}) /\ Activate.back = TRUE
    BY SharedParts
  <2>8. StepsSound(r)
    BY <2>7 DEF StepsTidy, StepsSound, StepTidy
  <2> QED  BY <2>1, <2>5, <2>6, <2>7, <2>8 DEF PartIs, ConnectTidy
<1> QED  BY <1>1, <1>2

\* The one that takes any line.
LEMMA RevMethod == RevTidy(getRev)
<1> DEFINE s == <<Asks("text"), Must("OK"), AnyLine, Must("OK"), Asks("text"), AnyLine, Must("OK")>>
<1>1. getRev = <<Default(s)>>
  BY Zenon DEF getRev
<1>2. /\ StepTidy(Asks("text")) /\ Asks("text").op = "send"
      /\ Asks("text").answers \subseteq Seq(Words)
  <2>1. StepTidy(Asks("text"))
    BY WordFacts, AnswersAre, CommandsAreTidy, Zenon
  <2> DEFINE all == {<<"text", "OK">>} \cup {Err}
  <2>2. all \subseteq Seq(Words)
    <3>1. \A a, b \in Words : <<a, b>> \in Seq(Words) /\ <<a>> \in Seq(Words)
      OBVIOUS
    <3>2. <<"text", "OK">> \in Seq(Words) /\ <<"ERROR">> \in Seq(Words)
      BY <3>1, WordFacts, Zenon
    <3> QED  BY <3>2 DEF Err
  <2> HIDE DEF all
  <2>3. Asks("text") = [Step0 EXCEPT !.op = "send", !.answers = all]
    BY Zenon DEF Asks, Send, all
  <2>4. Asks("text").op = "send" /\ Asks("text").answers = all
    BY <2>3 DEF Step0
  <2> QED  BY <2>1, <2>2, <2>4, Zenon
<1>3. /\ AnyLine.hit \in Nat /\ AnyLine.miss \in Nat /\ AnyLine.keeps = FALSE
      /\ AnyLine.answers \subseteq Seq(Words) /\ AnyLine.kinds = {"any"}
  BY DEF AnyLine, Must, Step0, END
<1>4. {"any"} \cap Strays = {}
  BY DEF Strays
<1>5. Len(s) = 7
  BY DEF s
<1>6. ASSUME NEW i \in 1..7
      PROVE  /\ s[i].hit \in Nat /\ s[i].miss \in Nat /\ s[i].keeps = FALSE
             /\ s[i].answers \subseteq Seq(Words) /\ s[i].kinds \cap Strays = {}
             /\ i = 1 => s[i].op = "send"
             /\ i = 2 => s[i].op = "recv"
             /\ i \in {1, 2} => s[i].kinds \subseteq Words
  <2>1. StepTidy(Asks("text")) /\ StepTidy(Must("OK"))
    BY <1>2, OkIsTidy
  <2>2. ASSUME NEW x, StepTidy(x)
        PROVE  /\ x.hit \in Nat /\ x.miss \in Nat /\ x.keeps = FALSE
               /\ x.kinds \cap Strays = {} /\ x.kinds \subseteq Words
    BY <2>2, AnswersAre DEF StepTidy, StepSound
  <2> DEFINE ok == Must("OK")
  <2>8. ok.op = "recv" /\ ok.answers \subseteq Seq(Words) /\ StepTidy(ok)
    <3>1. Must("OK").op = "recv" /\ Must("OK").answers = {}
      BY DEF Must, Step0
    <3> QED  BY <2>1, <3>1
  <2>3. CASE i = 1
    <3>1. s[i] = Asks("text") /\ i # 2
      BY <2>3
    <3> HIDE DEF s
    <3> QED  BY <1>2, <2>2, <3>1
  <2>4. CASE i \in {2, 4, 7}
    <3>1. s[i] = ok /\ i # 1
      BY <2>4
    <3> HIDE DEF s, ok
    <3> QED  BY <2>8, <2>2, <3>1
  <2>5. CASE i = 5
    <3>1. s[i] = Asks("text") /\ i # 1 /\ i # 2
      BY <2>5
    <3> HIDE DEF s
    <3> QED  BY <1>2, <2>2, <3>1
  <2>6. CASE i \in {3, 6}
    <3>1. s[i] = AnyLine /\ i # 1 /\ i # 2
      BY <2>6
    <3> HIDE DEF s
    <3> QED  BY <1>3, <1>4, <3>1
  <2>7. i = 1 \/ i \in {2, 4, 7} \/ i = 5 \/ i \in {3, 6}
    OBVIOUS
  <2> HIDE DEF s
  <2> QED  BY <2>3, <2>4, <2>5, <2>6, <2>7
<1> HIDE DEF s
<1>7. PartIs(Default(s), s, {0}, {0})
  BY PartsAre
<1>8. 7 \in Nat
  OBVIOUS
<1> DEFINE part == Default(s)
<1> HIDE DEF part
<1>9. part.steps = s /\ part.then = {0} /\ part.else = {0} /\ PartTidy(part)
  BY <1>7 DEF PartIs, part
<1>10. RevTidy(<<part>>)
  <2> DEFINE parts == <<part>>
  <2>1. DOMAIN parts = {1} /\ parts[1] = part
    OBVIOUS
  <2> HIDE DEF parts
  <2>2. RevTidy(parts)
    BY <1>5, <1>6, <1>8, <1>9, <2>1, Zenon DEF RevTidy
  <2> QED  BY <2>2 DEF parts
<1> QED  BY <1>1, <1>10 DEF part

\* Every method of the table is as its name says.
LEMMA TableIsTidy == TableTidy
<1> SUFFICES ASSUME NEW m \in DOMAIN Table
             PROVE  IF m = "connect" THEN ConnectTidy(Table[m])
                    ELSE IF m = "mqtt_publish" THEN PublishTidy(Table[m])
                    ELSE IF m = "getRev" THEN RevTidy(Table[m])
                    ELSE Tidy(Table[m])
  BY DEF TableTidy
<1> QED  BY PlainMethods, AskingMethods, StartingMethods, OddMethods, LongMethods,
            KeepingMethods, RevMethod DEF Table

-----------------------------------------------------------------------------
(* The scripts that read their answer to its end.                          *)

Takes(s, k) == "any" \in s.kinds \/ k \in s.kinds

\* What `left' says may be unread, before step n, of the answer to the last command:
\* at the end of the part, nothing that a method would read.
MayLeave(left, n, q) == IF n \in DOMAIN left THEN q \in left[n]
                        ELSE \A j \in 1..Len(q) : q[j] \in Strays

\* If q is unread before step i, which is s, then what `left' says is so after it.
Follows(left, i, s, q) ==
    /\ s.op # "back"
    /\ s.op = "send" => q = <<>> /\ \A a \in s.answers : MayLeave(left, i + 1, a)
    /\ s.op = "recv" =>
         /\ \A j \in 1..Len(q) : Takes(s, q[j]) /\ (\A k \in 1..(j - 1) : ~Takes(s, q[k])) =>
              MayLeave(left, i + 1 + (IF q[j] \in s.stop THEN END ELSE s.hit),
                       SubSeq(q, j + 1, Len(q)))
         /\ (\A j \in 1..Len(q) : ~Takes(s, q[j])) => MayLeave(left, i + 1 + s.miss, <<>>)
         /\ q = <<>> => /\ MayLeave(left, i + 1 + s.hit, <<>>)
                        /\ MayLeave(left, i + 1 + END, <<>>)

StepReads(left, i, s) == left[i] \subseteq Seq(Kinds) /\ \A q \in left[i] : Follows(left, i, s, q)
Describes(left, steps) ==
    /\ DOMAIN left = 1..Len(steps) /\ MayLeave(left, 1, <<>>)
    /\ \A i \in 1..Len(steps) : StepReads(left, i, steps[i])
ReadsToEnd(steps) == \E left : Describes(left, steps)

TableReads == \A m \in DOMAIN Table \ Untidy : \A p \in DOMAIN Table[m] :
                  ReadsToEnd(Table[m][p].steps)

\* After the last step nothing is left, or a line that nobody reads.
LEMMA NothingLeft ==
  ASSUME NEW left, NEW n, n \notin DOMAIN left
  PROVE  MayLeave(left, n, <<>>) /\ \A k \in Strays : MayLeave(left, n, <<k>>)
  BY DEF MayLeave

LEMMA SendFollows ==
  ASSUME NEW left, NEW i, NEW answers, MayLeave(left, i + 1, Err),
         \A a \in answers : MayLeave(left, i + 1, a)
  PROVE  Follows(left, i, Send(answers), <<>>)
<1> DEFINE all == answers \cup {Err}
<1>1. \A a \in all : MayLeave(left, i + 1, a)
  OBVIOUS
<1> HIDE DEF all
<1>2. Send(answers) = [Step0 EXCEPT !.op = "send", !.answers = all]
  BY Zenon DEF Send, all
<1>3. Send(answers).op = "send" /\ Send(answers).answers = all
  BY <1>2 DEF Step0
<1> QED  BY <1>1, <1>3 DEF Follows

\* A step that reads a line of kind k, and where it goes on if none comes.
Reading(s, k, miss) ==
    s.op = "recv" /\ s.kinds = {k} /\ s.stop = {} /\ s.hit = 0 /\ s.miss = miss

LEMMA ReadSteps ==
  /\ \A k : Reading(Must(k), k, END) /\ Reading(May(k), k, 0)
  /\ \A k : Reading([Must(k) EXCEPT !.keeps = TRUE], k, END)
  /\ \A k, n : Reading(If(k, n), k, n)
<1>1. ASSUME NEW k, NEW n
      PROVE  /\ Reading(Must(k), k, END) /\ Reading(May(k), k, 0) /\ Reading(If(k, n), k, n)
             /\ Reading([Must(k) EXCEPT !.keeps = TRUE], k, END)
  BY DEF Must, May, If, Step0, Reading
<1> QED  BY <1>1

\* What is unread after the first or the second of a few lines.
LEMMA Rests ==
  ASSUME NEW k, NEW x, NEW y
  PROVE  /\ SubSeq(<<k>>, 2, 1) = <<>> /\ SubSeq(<<x, k>>, 3, 2) = <<>>
         /\ SubSeq(<<k, x>>, 2, 2) = <<x>> /\ SubSeq(<<k, x, y>>, 2, 3) = <<x, y>>
<1>1. ASSUME NEW S, NEW q \in Seq(S), q # <<>>
      PROVE  SubSeq(q, 2, Len(q)) = Tail(q)
  BY <1>1
<1> DEFINE S == {k, x, y}
<1>2. <<k, x>> \in Seq(S) /\ <<k, x, y>> \in Seq(S)
  OBVIOUS
<1> HIDE DEF S
<1>3. /\ Tail(<<k, x>>) = <<x>> /\ Tail(<<k, x, y>>) = <<x, y>>
      /\ Len(<<k, x>>) = 2 /\ Len(<<k, x, y>>) = 3 /\ <<k, x>> # <<>> /\ <<k, x, y>> # <<>>
  OBVIOUS
<1>4. SubSeq(<<k, x>>, 2, Len(<<k, x>>)) = Tail(<<k, x>>)
  BY <1>1, <1>2, <1>3
<1>5. SubSeq(<<k, x, y>>, 2, Len(<<k, x, y>>)) = Tail(<<k, x, y>>)
  BY <1>1, <1>2, <1>3
<1>6. SubSeq(<<k, x>>, 2, 2) = <<x>>
  BY <1>3, <1>4, Zenon
<1>7. SubSeq(<<k, x, y>>, 2, 3) = <<x, y>>
  BY <1>3, <1>5, Zenon
<1> QED  BY <1>6, <1>7, SubSeqEmpty

\* What follows it when it finds its line first, second, or not at all.
LEMMA ReadFollows ==
  ASSUME NEW left, NEW i \in Nat, NEW s, NEW k, NEW miss, Reading(s, k, miss), k # "any",
         NEW x, NEW y, x # k
  PROVE  /\ MayLeave(left, i + 1, <<>>) => /\ Follows(left, i, s, <<k>>)
                                           /\ Follows(left, i, s, <<x, k>>)
         /\ MayLeave(left, i + 1, <<x>>) => Follows(left, i, s, <<k, x>>)
         /\ MayLeave(left, i + 1, <<x, y>>) => Follows(left, i, s, <<k, x, y>>)
         /\ MayLeave(left, i + 1 + miss, <<>>) => Follows(left, i, s, <<x>>)
         /\ /\ MayLeave(left, i + 1, <<>>) /\ MayLeave(left, i + 1 + miss, <<>>)
            /\ MayLeave(left, i + 1 + END, <<>>)
            => Follows(left, i, s, <<>>)
<1>1. \A z : Takes(s, z) <=> z = k
  BY DEF Takes, Reading
<1>2. s.op = "recv" /\ s.stop = {} /\ i + 1 + s.hit = i + 1 /\ s.miss = miss
  BY DEF Reading
\* It takes the first or the second line.
<1>3. ASSUME NEW q, NEW n, Len(q) \in 1..3, n \in {1, 2}, n <= Len(q), q[n] = k,
             n = 2 => q[1] # k, q # <<>>,
             MayLeave(left, i + 1, SubSeq(q, n + 1, Len(q)))
      PROVE  Follows(left, i, s, q)
  <2>1. ASSUME NEW j \in 1..Len(q), Takes(s, q[j]), \A m \in 1..(j - 1) : ~Takes(s, q[m])
        PROVE  j = n
    <3>1. ~(n < j)
      <4> SUFFICES ASSUME n < j  PROVE FALSE
        OBVIOUS
      <4>1. n \in 1..(j - 1)
        BY <1>3, <2>1
      <4> QED  BY <1>1, <1>3, <2>1, <4>1
    <3>2. CASE n = 1
      BY <1>3, <2>1, <3>1, <3>2
    <3>3. CASE n = 2
      BY <1>1, <1>3, <2>1, <3>1, <3>3
    <3> QED  BY <1>3, <3>2, <3>3
  <2>2. \E j \in 1..Len(q) : Takes(s, q[j])
    <3>1. n \in 1..Len(q)
      BY <1>3
    <3> QED  BY <1>1, <1>3, <3>1
  <2>3. q[n] \notin s.stop
    BY <1>2
  <2> QED  BY <1>2, <1>3, <2>1, <2>2, <2>3 DEF Follows
<1>4. ASSUME NEW q, Len(q) \in Nat, \A j \in 1..Len(q) : q[j] # k,
             MayLeave(left, i + 1 + miss, <<>>),
             q = <<>> => MayLeave(left, i + 1, <<>>) /\ MayLeave(left, i + 1 + END, <<>>)
      PROVE  Follows(left, i, s, q)
  BY <1>1, <1>2, <1>4 DEF Follows
<1>5. ASSUME NEW q, Len(q) \in 1..3, q # <<>>, q[1] = k,
             MayLeave(left, i + 1, SubSeq(q, 2, Len(q)))
      PROVE  Follows(left, i, s, q)
  <2>1. 1 + 1 = 2 /\ 1 <= Len(q) /\ 1 # 2
    BY <1>5
  <2> QED  BY <1>3, <1>5, <2>1
<1>6. ASSUME MayLeave(left, i + 1, <<>>)
      PROVE  Follows(left, i, s, <<k>>) /\ Follows(left, i, s, <<x, k>>)
  <2> DEFINE r == <<k>>
  <2>1. Len(r) = 1 /\ r[1] = k /\ r # <<>> /\ SubSeq(r, 2, 1) = <<>>
    BY Rests
  <2> HIDE DEF r
  <2>2. Follows(left, i, s, r)
    <3>1. Len(r) \in 1..3 /\ SubSeq(r, 2, Len(r)) = <<>>
      BY <2>1
    <3>2. MayLeave(left, i + 1, SubSeq(r, 2, Len(r)))
      BY <1>6, <3>1, Zenon
    <3> QED  BY <1>5, <2>1, <3>1, <3>2, Zenon
  <2> DEFINE q == <<x, k>>
  <2>3. Len(q) = 2 /\ q[1] = x /\ q[2] = k /\ q # <<>>
    OBVIOUS
  <2>4. SubSeq(q, 3, 2) = <<>>
    BY Rests
  <2> HIDE DEF q
  <2>5. /\ Len(q) \in 1..3 /\ SubSeq(q, 2 + 1, Len(q)) = <<>> /\ q[1] # k
        /\ 2 <= Len(q) /\ 2 \in {1, 2}
    BY <2>3, <2>4
  <2>6. Follows(left, i, s, q)
    BY <1>3, <1>6, <2>3, <2>5, Zenon
  <2> QED  BY <2>2, <2>6 DEF q, r
<1>7. /\ MayLeave(left, i + 1, <<x>>) => Follows(left, i, s, <<k, x>>)
      /\ MayLeave(left, i + 1, <<x, y>>) => Follows(left, i, s, <<k, x, y>>)
  <2> DEFINE q == <<k, x>>
             r == <<k, x, y>>
  <2>1. Len(q) = 2 /\ q[1] = k /\ q # <<>> /\ Len(r) = 3 /\ r[1] = k /\ r # <<>>
    OBVIOUS
  <2>2. SubSeq(q, 2, 2) = <<x>> /\ SubSeq(r, 2, 3) = <<x, y>>
    BY Rests, Zenon
  <2> HIDE DEF q, r
  <2>5. /\ Len(q) \in 1..3 /\ SubSeq(q, 2, Len(q)) = <<x>>
        /\ Len(r) \in 1..3 /\ SubSeq(r, 2, Len(r)) = <<x, y>>
    BY <2>1, <2>2
  <2>3. MayLeave(left, i + 1, <<x>>) => Follows(left, i, s, q)
    <3> SUFFICES ASSUME MayLeave(left, i + 1, <<x>>)  PROVE Follows(left, i, s, q)
      OBVIOUS
    <3>1. MayLeave(left, i + 1, SubSeq(q, 2, Len(q)))
      BY <2>5
    <3> QED  BY <1>5, <2>1, <2>5, <3>1, Zenon
  <2>4. MayLeave(left, i + 1, <<x, y>>) => Follows(left, i, s, r)
    <3> SUFFICES ASSUME MayLeave(left, i + 1, <<x, y>>)  PROVE Follows(left, i, s, r)
      OBVIOUS
    <3>1. MayLeave(left, i + 1, SubSeq(r, 2, Len(r)))
      BY <2>5
    <3> QED  BY <1>5, <2>1, <2>5, <3>1, Zenon
  <2> QED  BY <2>3, <2>4 DEF q, r
<1>8. ASSUME MayLeave(left, i + 1 + miss, <<>>)  PROVE Follows(left, i, s, <<x>>)
  <2>1. Len(<<x>>) = 1 /\ <<x>>[1] = x /\ <<x>> # <<>>
    OBVIOUS
  <2>2. \A j \in 1..Len(<<x>>) : <<x>>[j] # k
    BY <2>1
  <2> QED  BY <1>4, <1>8, <2>1, <2>2
<1>9. ASSUME MayLeave(left, i + 1, <<>>), MayLeave(left, i + 1 + miss, <<>>),
             MayLeave(left, i + 1 + END, <<>>)
      PROVE  Follows(left, i, s, <<>>)
  <2>1. Len(<<>>) = 0
    OBVIOUS
  <2> QED  BY <1>4, <1>9, <2>1
<1> QED  BY <1>6, <1>7, <1>8, <1>9

\* Reading a line of kind k: it is there, alone, before or after another, or not.
LEMMA ReadWord ==
  ASSUME NEW left, NEW i \in Nat, NEW s, NEW k \in Words \ {"ERROR"}, NEW miss, Reading(s, k, miss)
  PROVE  /\ MayLeave(left, i + 1, <<>>) => Follows(left, i, s, <<k>>)
         /\ MayLeave(left, i + 1 + miss, <<>>) => Follows(left, i, s, Err)
         /\ \A x : x # k /\ MayLeave(left, i + 1, <<>>) => Follows(left, i, s, <<x, k>>)
         /\ \A x : x # k /\ MayLeave(left, i + 1, <<x>>) => Follows(left, i, s, <<k, x>>)
         /\ /\ MayLeave(left, i + 1, <<>>) /\ MayLeave(left, i + 1 + miss, <<>>)
            /\ MayLeave(left, i + 1 + END, <<>>)
            => Follows(left, i, s, <<>>)
<1>1. k # "any" /\ "ERROR" # k
  BY DEF Words
<1>2. ASSUME NEW x, x # k
      PROVE  /\ MayLeave(left, i + 1, <<>>) => /\ Follows(left, i, s, <<k>>)
                                               /\ Follows(left, i, s, <<x, k>>)
             /\ MayLeave(left, i + 1, <<x>>) => Follows(left, i, s, <<k, x>>)
             /\ MayLeave(left, i + 1 + miss, <<>>) => Follows(left, i, s, <<x>>)
             /\ /\ MayLeave(left, i + 1, <<>>) /\ MayLeave(left, i + 1 + miss, <<>>)
                /\ MayLeave(left, i + 1 + END, <<>>)
                => Follows(left, i, s, <<>>)
  BY <1>1, <1>2, ReadFollows, Zenon
<1> QED  BY <1>1, <1>2, Zenon DEF Err

\* What may be unread at a step, and after the last.
LEMMA LeftAt ==
  ASSUME NEW left, NEW n \in 1..7, DOMAIN left = 1..n
  PROVE  /\ \A i \in 1..n : \A q \in left[i] : MayLeave(left, i, q)
         /\ MayLeave(left, n + 1, <<>>) /\ \A k \in Strays : MayLeave(left, n + 1, <<k>>)
         /\ \A i \in 1..8 : MayLeave(left, i + END, <<>>)
<1>1. \A i \in 1..n : \A q \in left[i] : MayLeave(left, i, q)
  BY DEF MayLeave
<1>2. n + 1 \notin DOMAIN left /\ \A i \in 1..8 : i + END \notin DOMAIN left
  BY DEF END
<1> QED  BY <1>1, <1>2, NothingLeft

LEMMA Sums == /\ 1 + 1 = 2 /\ 2 + 1 = 3 /\ 3 + 1 = 4 /\ 4 + 1 = 5 /\ 5 + 1 = 6 /\ 6 + 1 = 7
              /\ 7 + 1 = 8
              /\ \A n \in 1..7 : n \in Nat /\ n \in 1..n /\ n \in 1..8 /\ n + 1 \in 1..8
              /\ 1 \in 1..7 /\ 2 \in 1..7 /\ 3 \in 1..7 /\ 4 \in 1..7 /\ 5 \in 1..7 /\ 6 \in 1..7
              /\ 7 \in 1..7
  OBVIOUS

\* A command that is sent when nothing is unread.
LEMMA SendReads ==
  ASSUME NEW left, NEW n \in 1..7, DOMAIN left = 1..n, NEW i \in 1..7, NEW j \in 1..n, j = i + 1,
         NEW answers, left[i] = {<<>>}, answers \subseteq left[j], Err \in left[j]
  PROVE  StepReads(left, i, Send(answers))
<1>1. \A q \in left[j] : MayLeave(left, j, q)
  BY LeftAt, Zenon
<1>2. MayLeave(left, i + 1, Err) /\ \A a \in answers : MayLeave(left, i + 1, a)
  BY <1>1
<1>3. Follows(left, i, Send(answers), <<>>)
  BY <1>2, SendFollows, Zenon
<1>4. {<<>>} \subseteq Seq(Kinds)
  BY AnswersAre
<1> QED  BY <1>3, <1>4 DEF StepReads

\* A command, and the reply to it.
LEMMA PairReads ==
  ASSUME NEW a \in Words \ {"ERROR"}, NEW r, Reading(r, a, END)
  PROVE  ReadsToEnd(<<Send({<<a>>}), r>>)
<1> DEFINE left  == <<{<<>>}, {<<a>>, Err}>>
           steps == <<Send({<<a>>}), r>>
<1>1. /\ DOMAIN left = 1..2 /\ left[1] = {<<>>} /\ left[2] = {<<a>>, Err}
      /\ Len(steps) = 2 /\ steps[1] = Send({<<a>>}) /\ steps[2] = r
  OBVIOUS
<1>2. left[1] \subseteq Seq(Kinds) /\ left[2] \subseteq Seq(Kinds)
  BY <1>1, AnswersAre, WordFacts DEF Err
<1> HIDE DEF left, steps
<1>3. /\ MayLeave(left, 1, <<>>) /\ MayLeave(left, 2, <<a>>) /\ MayLeave(left, 2, Err)
      /\ MayLeave(left, 3, <<>>) /\ MayLeave(left, 3 + END, <<>>)
  <2>1. 1 \in 1..2 /\ <<>> \in left[1] /\ <<a>> \in left[2] /\ Err \in left[2]
    BY <1>1
  <2> QED  BY <1>1, <2>1, LeftAt, Sums, Zenon
<1>4. StepReads(left, 1, steps[1])
  <2>1. 1 \in 1..7 /\ 2 \in 1..7 /\ 2 \in 1..2 /\ 2 = 1 + 1
    OBVIOUS
  <2>2. {<<a>>} \subseteq left[2] /\ Err \in left[2]
    BY <1>1
  <2>3. StepReads(left, 1, Send({<<a>>}))
    BY <1>1, <2>1, <2>2, SendReads, Zenon
  <2> QED  BY <1>1, <2>3
<1>5. StepReads(left, 2, steps[2])
  <2>1. Follows(left, 2, steps[2], <<a>>) /\ Follows(left, 2, steps[2], Err)
    BY <1>1, <1>3, ReadWord, Sums, Zenon
  <2> QED  BY <1>1, <1>2, <2>1 DEF StepReads
<1>6. \A i \in 1..2 : i = 1 \/ i = 2
  OBVIOUS
<1>7. Describes(left, steps)
  BY <1>1, <1>3, <1>4, <1>5, <1>6 DEF Describes
<1> QED  BY <1>7 DEF ReadsToEnd, steps

\* A command, the reply to it, and a result that is read too, or that nobody reads.
LEMMA ResultReads ==
  ASSUME NEW a \in Words \ {"ERROR"}, NEW b \in Words \ {"ERROR"}, b # a,
         NEW r, Reading(r, a, END), NEW s, NEW miss, Reading(s, b, miss)
  PROVE  ReadsToEnd(<<Send({<<a, b>>}), r, s>>)
<1> DEFINE left  == <<{<<>>}, {<<a, b>>, Err}, {<<b>>}>>
           steps == <<Send({<<a, b>>}), r, s>>
<1>1. /\ DOMAIN left = 1..3 /\ left[1] = {<<>>} /\ left[2] = {<<a, b>>, Err} /\ left[3] = {<<b>>}
      /\ Len(steps) = 3 /\ steps[1] = Send({<<a, b>>}) /\ steps[2] = r /\ steps[3] = s
  OBVIOUS
<1>2. left[2] \subseteq Seq(Kinds) /\ left[3] \subseteq Seq(Kinds)
  <2>1. <<a, b>> \in Seq(Kinds) /\ <<b>> \in Seq(Kinds) /\ Err \in Seq(Kinds)
    BY AnswersAre, WordFacts DEF Err
  <2> QED  BY <1>1, <2>1
<1> HIDE DEF left, steps
<1>3. /\ 1 \in 1..7 /\ 2 \in 1..3 /\ 3 \in 1..3 /\ 2 = 1 + 1 /\ 1 \in 1..3 /\ 3 \in 1..7 /\ 3 \in 1..8
      /\ <<>> \in left[1] /\ {<<a, b>>} \subseteq left[2] /\ Err \in left[2] /\ <<b>> \in left[3]
  BY <1>1
<1>4. /\ MayLeave(left, 1, <<>>) /\ MayLeave(left, 3, <<b>>)
      /\ MayLeave(left, 4, <<>>) /\ MayLeave(left, 3 + END, <<>>)
  BY <1>1, <1>3, LeftAt, Sums, Zenon
<1>5. StepReads(left, 1, Send({<<a, b>>}))
  BY <1>1, <1>3, SendReads, Zenon
<1>6. StepReads(left, 2, r)
  <2>1. Follows(left, 2, r, <<a, b>>) /\ Follows(left, 2, r, Err)
    BY <1>4, ReadWord, Sums, Zenon
  <2> QED  BY <1>1, <1>2, <2>1 DEF StepReads
<1>7. StepReads(left, 3, s)
  <2>1. Follows(left, 3, s, <<b>>)
    BY <1>4, ReadWord, Sums, Zenon
  <2> QED  BY <1>1, <1>2, <2>1 DEF StepReads
<1>8. \A i \in 1..3 : i = 1 \/ i = 2 \/ i = 3
  OBVIOUS
<1>9. Describes(left, steps)
  BY <1>1, <1>4, <1>5, <1>6, <1>7, <1>8 DEF Describes
<1> QED  BY <1>9 DEF ReadsToEnd, steps

LEMMA StrayReads ==
  ASSUME NEW a \in Words \ {"ERROR"}, NEW k \in Strays, NEW r, Reading(r, a, END)
  PROVE  ReadsToEnd(<<Send({<<a, k>>}), r>>)
<1> DEFINE left  == <<{<<>>}, {<<a, k>>, Err}>>
           steps == <<Send({<<a, k>>}), r>>
<1>1. /\ DOMAIN left = 1..2 /\ left[1] = {<<>>} /\ left[2] = {<<a, k>>, Err}
      /\ Len(steps) = 2 /\ steps[1] = Send({<<a, k>>}) /\ steps[2] = r
  OBVIOUS
<1>2. left[2] \subseteq Seq(Kinds) /\ k # a
  <2>1. <<a, k>> \in Seq(Kinds) /\ k # a /\ Err \in Seq(Kinds)
    BY AnswersAre, WordFacts DEF Err
  <2> QED  BY <1>1, <2>1
<1> HIDE DEF left, steps
<1>3. /\ 1 \in 1..7 /\ 2 \in 1..2 /\ 2 = 1 + 1 /\ 1 \in 1..2 /\ 2 \in 1..7 /\ 3 \in 1..8
      /\ <<>> \in left[1] /\ {<<a, k>>} \subseteq left[2] /\ Err \in left[2]
  BY <1>1
<1>4. /\ MayLeave(left, 1, <<>>) /\ MayLeave(left, 3, <<>>) /\ MayLeave(left, 3, <<k>>)
      /\ MayLeave(left, 3 + END, <<>>)
  BY <1>1, <1>3, LeftAt, Sums, Zenon
<1>5. StepReads(left, 1, Send({<<a, k>>}))
  BY <1>1, <1>3, SendReads, Zenon
<1>6. StepReads(left, 2, r)
  <2>1. Follows(left, 2, r, <<a, k>>) /\ Follows(left, 2, r, Err)
    BY <1>2, <1>4, ReadWord, Sums, Zenon
  <2> QED  BY <1>1, <1>2, <2>1 DEF StepReads
<1>7. \A i \in 1..2 : i = 1 \/ i = 2
  OBVIOUS
<1>8. Describes(left, steps)
  BY <1>1, <1>4, <1>5, <1>6, <1>7 DEF Describes
<1> QED  BY <1>8 DEF ReadsToEnd, steps

\* A command, a prompt, data, and the reply to these after another line.
LEMMA DataReads ==
  ASSUME NEW a \in Words \ {"ERROR"}, NEW b \in Words \ {"ERROR"}, NEW x \in Words, x # b,
         NEW r, Reading(r, a, END), NEW s, Reading(s, b, END)
  PROVE  ReadsToEnd(<<Send({<<a>>}), r, Send({<<x, b>>}), s>>)
<1> DEFINE left  == <<{<<>>}, {<<a>>, Err}, {<<>>}, {<<x, b>>, Err}>>
           steps == <<Send({<<a>>}), r, Send({<<x, b>>}), s>>
<1>1. /\ DOMAIN left = 1..4 /\ left[1] = {<<>>} /\ left[2] = {<<a>>, Err} /\ left[3] = {<<>>}
      /\ left[4] = {<<x, b>>, Err}
      /\ Len(steps) = 4 /\ steps[1] = Send({<<a>>}) /\ steps[2] = r
      /\ steps[3] = Send({<<x, b>>}) /\ steps[4] = s
  OBVIOUS
<1>2. left[2] \subseteq Seq(Kinds) /\ left[4] \subseteq Seq(Kinds)
  <2>1. <<a>> \in Seq(Kinds) /\ <<x, b>> \in Seq(Kinds) /\ Err \in Seq(Kinds)
    BY AnswersAre, WordFacts DEF Err
  <2> QED  BY <1>1, <2>1
<1> HIDE DEF left, steps
<1>3. /\ 1 \in 1..7 /\ 2 \in 1..4 /\ 3 \in 1..4 /\ 2 = 1 + 1 /\ 1 \in 1..4 /\ 3 \in 1..7
      /\ 4 \in 1..7 /\ 4 \in 1..4 /\ 4 = 3 + 1 /\ 3 \in 1..8 /\ 5 \in 1..8
      /\ <<>> \in left[1] /\ {<<a>>} \subseteq left[2] /\ Err \in left[2] /\ <<>> \in left[3]
      /\ {<<x, b>>} \subseteq left[4] /\ Err \in left[4]
  BY <1>1
<1>4. /\ MayLeave(left, 1, <<>>) /\ MayLeave(left, 3, <<>>) /\ MayLeave(left, 5, <<>>)
      /\ MayLeave(left, 3 + END, <<>>) /\ MayLeave(left, 5 + END, <<>>)
  BY <1>1, <1>3, LeftAt, Sums, Zenon
<1>5. StepReads(left, 1, Send({<<a>>})) /\ StepReads(left, 3, Send({<<x, b>>}))
  BY <1>1, <1>3, SendReads, Zenon
<1>6. StepReads(left, 2, r)
  <2>1. Follows(left, 2, r, <<a>>) /\ Follows(left, 2, r, Err)
    BY <1>4, ReadWord, Sums, Zenon
  <2> QED  BY <1>1, <1>2, <2>1 DEF StepReads
<1>7. StepReads(left, 4, s)
  <2>1. Follows(left, 4, s, <<x, b>>) /\ Follows(left, 4, s, Err)
    BY <1>4, ReadWord, Sums, Zenon
  <2> QED  BY <1>1, <1>2, <2>1 DEF StepReads
<1>8. \A i \in 1..4 : i = 1 \/ i = 2 \/ i = 3 \/ i = 4
  OBVIOUS
<1>9. Describes(left, steps)
  BY <1>1, <1>4, <1>5, <1>6, <1>7, <1>8 DEF Describes
<1> QED  BY <1>9 DEF ReadsToEnd, steps

\* A step that takes the first of one or two lines, or finds nothing.
LEMMA FirstFollows ==
  ASSUME NEW left, NEW i \in Nat, NEW s, s.op = "recv", NEW k, Takes(s, k), NEW x,
         NEW d, d = (IF k \in s.stop THEN END ELSE s.hit), NEW n, n = i + 1 + d
  PROVE  /\ MayLeave(left, n, <<>>) => Follows(left, i, s, <<k>>)
         /\ MayLeave(left, n, <<x>>) => Follows(left, i, s, <<k, x>>)
<1>1. ASSUME NEW q, Len(q) \in 1..2, q # <<>>, q[1] = k, MayLeave(left, n, SubSeq(q, 2, Len(q)))
      PROVE  Follows(left, i, s, q)
  <2>1. ASSUME NEW j \in 1..Len(q), Takes(s, q[j]), \A m \in 1..(j - 1) : ~Takes(s, q[m])
        PROVE  j = 1
    <3> SUFFICES ASSUME j # 1  PROVE FALSE
      OBVIOUS
    <3>1. 1 \in 1..(j - 1)
      BY <1>1, <2>1
    <3> QED  BY <1>1, <2>1, <3>1
  <2>2. 1 \in 1..Len(q) /\ Takes(s, q[1]) /\ 1 + 1 = 2
    BY <1>1
  <2>3. \A j \in 1..Len(q) : Takes(s, q[j]) /\ (\A m \in 1..(j - 1) : ~Takes(s, q[m])) =>
          MayLeave(left, i + 1 + (IF q[j] \in s.stop THEN END ELSE s.hit), SubSeq(q, j + 1, Len(q)))
    <3> SUFFICES MayLeave(left, i + 1 + (IF q[1] \in s.stop THEN END ELSE s.hit),
                          SubSeq(q, 1 + 1, Len(q)))
      BY <2>1
    <3> QED  BY <1>1, <2>2
  <2> QED  BY <1>1, <2>2, <2>3, Zenon DEF Follows
<1> DEFINE q == <<k>>
           r == <<k, x>>
<1>2. /\ Len(q) = 1 /\ q[1] = k /\ q # <<>> /\ Len(r) = 2 /\ r[1] = k /\ r # <<>>
  OBVIOUS
<1>3. SubSeq(q, 2, 1) = <<>> /\ SubSeq(r, 2, 2) = <<x>>
  BY Rests, Zenon
<1> HIDE DEF q, r
<1>4. /\ Len(q) \in 1..2 /\ SubSeq(q, 2, Len(q)) = <<>>
      /\ Len(r) \in 1..2 /\ SubSeq(r, 2, Len(r)) = <<x>>
  BY <1>2, <1>3
<1>5. MayLeave(left, n, <<>>) => Follows(left, i, s, q)
  BY <1>1, <1>2, <1>4, Zenon
<1>6. MayLeave(left, n, <<x>>) => Follows(left, i, s, r)
  BY <1>1, <1>2, <1>4, Zenon
<1> QED  BY <1>5, <1>6 DEF q, r

LEMMA NoneFollows ==
  ASSUME NEW left, NEW i, NEW s, s.op = "recv", NEW x, NEW n, n = i + 1 + s.miss,
         MayLeave(left, n, <<>>)
  PROVE  /\ ~Takes(s, x) => Follows(left, i, s, <<x>>)
         /\ MayLeave(left, i + 1 + s.hit, <<>>) /\ MayLeave(left, i + 1 + END, <<>>) =>
              Follows(left, i, s, <<>>)
<1> DEFINE q == <<x>>
<1>1. Len(q) = 1 /\ q[1] = x /\ q # <<>> /\ Len(<<>>) = 0
  OBVIOUS
<1> HIDE DEF q
<1>2. ~Takes(s, x) => Follows(left, i, s, q)
  BY <1>1 DEF Follows
<1>3. MayLeave(left, i + 1 + s.hit, <<>>) /\ MayLeave(left, i + 1 + END, <<>>) =>
              Follows(left, i, s, <<>>)
  BY <1>1 DEF Follows
<1> QED  BY <1>2, <1>3 DEF q

\* A command, its prompt, data if it came, and the reply, waited for in any case.
LEMMA PromptReads ==
  ASSUME NEW a \in Words \ {"ERROR"}, NEW b \in Words \ {"ERROR"},
         NEW n \in {1, END}, NEW r, Reading(r, a, n), NEW m \in {0, END}, NEW s, Reading(s, b, m)
  PROVE  ReadsToEnd(<<Send({<<a>>}), r, Send({<<b>>}), s>>)
<1> DEFINE left  == <<{<<>>}, {<<a>>, Err}, {<<>>}, {<<b>>, Err, <<>>}>>
           steps == <<Send({<<a>>}), r, Send({<<b>>}), s>>
<1>1. /\ DOMAIN left = 1..4 /\ left[1] = {<<>>} /\ left[2] = {<<a>>, Err} /\ left[3] = {<<>>}
      /\ left[4] = {<<b>>, Err, <<>>}
      /\ Len(steps) = 4 /\ steps[1] = Send({<<a>>}) /\ steps[2] = r
      /\ steps[3] = Send({<<b>>}) /\ steps[4] = s
  OBVIOUS
<1>2. left[2] \subseteq Seq(Kinds) /\ left[4] \subseteq Seq(Kinds)
  <2>1. <<a>> \in Seq(Kinds) /\ <<b>> \in Seq(Kinds) /\ Err \in Seq(Kinds) /\ <<>> \in Seq(Kinds)
    BY AnswersAre, WordFacts DEF Err
  <2> QED  BY <1>1, <2>1
<1> HIDE DEF left, steps
<1>3. /\ 1 \in 1..7 /\ 2 \in 1..4 /\ 3 \in 1..4 /\ 2 = 1 + 1 /\ 1 \in 1..4 /\ 3 \in 1..7
      /\ 4 \in 1..7 /\ 4 \in 1..4 /\ 4 = 3 + 1 /\ 3 \in 1..8 /\ 5 \in 1..8 /\ 5 + 0 = 5
      /\ <<>> \in left[1] /\ {<<a>>} \subseteq left[2] /\ Err \in left[2] /\ <<>> \in left[3]
      /\ {<<b>>} \subseteq left[4] /\ Err \in left[4] /\ <<>> \in left[4]
  BY <1>1
<1>4. /\ MayLeave(left, 1, <<>>) /\ MayLeave(left, 3, <<>>) /\ MayLeave(left, 4, <<>>)
      /\ MayLeave(left, 5, <<>>) /\ MayLeave(left, 3 + END, <<>>) /\ MayLeave(left, 5 + END, <<>>)
  BY <1>1, <1>3, LeftAt, Sums, Zenon
<1>5. MayLeave(left, 3 + n, <<>>) /\ MayLeave(left, 5 + m, <<>>)
  BY <1>3, <1>4, Sums
<1>6. StepReads(left, 1, Send({<<a>>})) /\ StepReads(left, 3, Send({<<b>>}))
  BY <1>1, <1>3, SendReads, Zenon
<1>7. StepReads(left, 2, r)
  <2>1. Follows(left, 2, r, <<a>>) /\ Follows(left, 2, r, Err)
    BY <1>4, <1>5, ReadWord, Sums, Zenon
  <2> QED  BY <1>1, <1>2, <2>1 DEF StepReads
<1>8. StepReads(left, 4, s)
  <2>1. Follows(left, 4, s, <<b>>) /\ Follows(left, 4, s, Err) /\ Follows(left, 4, s, <<>>)
    BY <1>4, <1>5, ReadWord, Sums, Zenon
  <2> QED  BY <1>1, <1>2, <2>1 DEF StepReads
<1>9. \A i \in 1..4 : i = 1 \/ i = 2 \/ i = 3 \/ i = 4
  OBVIOUS
<1>10. Describes(left, steps)
  BY <1>1, <1>4, <1>6, <1>7, <1>8, <1>9 DEF Describes
<1> QED  BY <1>10 DEF ReadsToEnd, steps

LEMMA UploadReads == ReadsToEnd(Upload.steps)
<1> DEFINE u == Send({<<"CONNECT">>})
           v == Send({<<"+QFUPL", "OK">>})
           steps == <<u, Must("CONNECT"), v, Must("+QFUPL"), May("OK")>>
           left  == <<{<<>>}, {<<"CONNECT">>, Err}, {<<>>}, {<<"+QFUPL", "OK">>, Err}, {<<"OK">>}>>
<1>1. Upload.steps = steps
  <2>1. Upload = Timed(steps)
    BY Zenon DEF Upload
  <2> HIDE DEF steps
  <2> QED  BY <2>1 DEF Timed, Default
<1>2. /\ DOMAIN left = 1..5 /\ left[1] = {<<>>} /\ left[2] = {<<"CONNECT">>, Err}
      /\ left[3] = {<<>>} /\ left[4] = {<<"+QFUPL", "OK">>, Err} /\ left[5] = {<<"OK">>}
      /\ Len(steps) = 5 /\ steps[1] = u /\ steps[2] = Must("CONNECT")
      /\ steps[3] = v /\ steps[4] = Must("+QFUPL") /\ steps[5] = May("OK")
  OBVIOUS
<1>3. left[2] \subseteq Seq(Kinds) /\ left[4] \subseteq Seq(Kinds) /\ left[5] \subseteq Seq(Kinds)
  <2>1. /\ <<"CONNECT">> \in Seq(Kinds) /\ <<"+QFUPL", "OK">> \in Seq(Kinds)
        /\ <<"OK">> \in Seq(Kinds) /\ Err \in Seq(Kinds)
    BY AnswersAre, WordFacts DEF Err
  <2> QED  BY <1>2, <2>1
<1> HIDE DEF left, steps
<1>4. /\ 1 \in 1..7 /\ 2 \in 1..5 /\ 3 \in 1..5 /\ 2 = 1 + 1 /\ 1 \in 1..5 /\ 3 \in 1..7
      /\ 5 \in 1..7 /\ 4 \in 1..5 /\ 4 = 3 + 1 /\ 5 \in 1..5 /\ 3 \in 1..8 /\ 5 \in 1..8
      /\ "CONNECT" # "ERROR" /\ "+QFUPL" # "ERROR" /\ "OK" # "ERROR" /\ "OK" # "+QFUPL"
  OBVIOUS
<1>5. /\ <<>> \in left[1] /\ {<<"CONNECT">>} \subseteq left[2] /\ Err \in left[2] /\ <<>> \in left[3]
      /\ {<<"+QFUPL", "OK">>} \subseteq left[4] /\ Err \in left[4] /\ <<"OK">> \in left[5]
  BY <1>2
<1>6. /\ MayLeave(left, 1, <<>>) /\ MayLeave(left, 3, <<>>) /\ MayLeave(left, 5, <<"OK">>)
      /\ MayLeave(left, 6, <<>>) /\ MayLeave(left, 3 + END, <<>>) /\ MayLeave(left, 5 + END, <<>>)
  BY <1>2, <1>4, <1>5, LeftAt, Sums, Zenon
<1>7. StepReads(left, 1, u) /\ StepReads(left, 3, v)
  BY <1>2, <1>4, <1>5, SendReads, Zenon
<1>8. /\ Reading(Must("CONNECT"), "CONNECT", END) /\ Reading(Must("+QFUPL"), "+QFUPL", END)
      /\ Reading(May("OK"), "OK", 0)
  BY ReadSteps, Zenon
<1>9. /\ "CONNECT" \in Words \ {"ERROR"} /\ "+QFUPL" \in Words \ {"ERROR"}
      /\ "OK" \in Words \ {"ERROR"}
  BY <1>4, WordFacts
<1>10. StepReads(left, 2, Must("CONNECT"))
  <2>1. Follows(left, 2, Must("CONNECT"), <<"CONNECT">>) /\ Follows(left, 2, Must("CONNECT"), Err)
    BY <1>6, <1>8, <1>9, ReadWord, Sums, Zenon
  <2> QED  BY <1>2, <1>3, <2>1 DEF StepReads
<1>11. StepReads(left, 4, Must("+QFUPL"))
  <2>1. Follows(left, 4, Must("+QFUPL"), <<"+QFUPL", "OK">>) /\ Follows(left, 4, Must("+QFUPL"), Err)
    BY <1>4, <1>6, <1>8, <1>9, ReadWord, Sums, Zenon
  <2> QED  BY <1>2, <1>3, <2>1 DEF StepReads
<1>12. StepReads(left, 5, May("OK"))
  <2>1. Follows(left, 5, May("OK"), <<"OK">>)
    BY <1>6, <1>8, <1>9, ReadWord, Sums, Zenon
  <2> QED  BY <1>2, <1>3, <2>1 DEF StepReads
<1>13. \A i \in 1..5 : i = 1 \/ i = 2 \/ i = 3 \/ i = 4 \/ i = 5
  OBVIOUS
<1>14. Describes(left, steps)
  BY <1>2, <1>6, <1>7, <1>10, <1>11, <1>12, <1>13 DEF Describes
<1> QED  BY <1>1, <1>14 DEF ReadsToEnd

\* The reset, and the wait for a line nobody asked for.
LEMMA WaitsRead ==
  /\ ReadsToEnd(<<[Step0 EXCEPT !.op = "send", !.answers = {<<"RDY">>, <<>>}], Must("RDY")>>)
  /\ ReadsToEnd(<<May("+QMTRECV")>>)
<1>1. ReadsToEnd(<<[Step0 EXCEPT !.op = "send", !.answers = {<<"RDY">>, <<>>}], Must("RDY")>>)
  <2> DEFINE answers == {<<"RDY">>, <<>>}
             reset == [Step0 EXCEPT !.op = "send", !.answers = answers]
             steps == <<reset, Must("RDY")>>
             left  == <<{<<>>}, answers>>
  <2>1. /\ DOMAIN left = 1..2 /\ left[1] = {<<>>} /\ left[2] = answers
        /\ Len(steps) = 2 /\ steps[1] = reset /\ steps[2] = Must("RDY")
    OBVIOUS
  <2>2. left[1] \subseteq Seq(Kinds) /\ left[2] \subseteq Seq(Kinds)
    <3>1. <<"RDY">> \in Seq(Kinds) /\ <<>> \in Seq(Kinds)
      BY AnswersAre, WordFacts
    <3> QED  BY <2>1, <3>1
  <2> HIDE DEF left, steps
  <2>3. 1 \in 1..2 /\ 2 \in 1..2 /\ 2 \in 1..7 /\ 3 \in 1..8 /\ <<>> \in left[1] /\ 2 = 1 + 1
    BY <2>1
  <2>4. /\ MayLeave(left, 1, <<>>) /\ MayLeave(left, 3, <<>>) /\ MayLeave(left, 3 + END, <<>>)
        /\ \A q \in answers : MayLeave(left, 2, q)
    BY <2>1, <2>3, LeftAt, Sums, Zenon
  <2> HIDE DEF answers
  <2>5. reset.op = "send" /\ reset.answers = answers
    BY DEF Step0
  <2> HIDE DEF reset
  <2>6. StepReads(left, 1, reset)
    <3>1. Follows(left, 1, reset, <<>>)
      BY <2>3, <2>4, <2>5 DEF Follows
    <3> QED  BY <2>1, <2>2, <3>1 DEF StepReads
  <2>7. StepReads(left, 2, Must("RDY"))
    <3>1. Reading(Must("RDY"), "RDY", END)
      BY ReadSteps, Zenon
    <3>2. "RDY" \in Words \ {"ERROR"}
      BY WordFacts
    <3>3. Follows(left, 2, Must("RDY"), <<"RDY">>) /\ Follows(left, 2, Must("RDY"), <<>>)
      BY <2>4, <3>1, <3>2, ReadWord, Sums, Zenon
    <3> QED  BY <2>1, <2>2, <3>3 DEF StepReads, answers
  <2>8. \A i \in 1..2 : i = 1 \/ i = 2
    OBVIOUS
  <2>9. Describes(left, steps)
    BY <2>1, <2>4, <2>6, <2>7, <2>8 DEF Describes
  <2>10. ReadsToEnd(steps)
    BY <2>9 DEF ReadsToEnd
  <2> QED  BY <2>10 DEF steps, reset, answers
<1>2. ReadsToEnd(<<May("+QMTRECV")>>)
  <2> DEFINE steps == <<May("+QMTRECV")>>
             left  == <<{<<>>}>>
  <2>1. /\ DOMAIN left = 1..1 /\ left[1] = {<<>>} /\ Len(steps) = 1 /\ steps[1] = May("+QMTRECV")
    OBVIOUS
  <2>2. left[1] \subseteq Seq(Kinds)
    BY <2>1, AnswersAre
  <2> HIDE DEF left, steps
  <2>3. 1 \in 1..1 /\ 1 \in 1..7 /\ 2 \in 1..8 /\ <<>> \in left[1] /\ 2 + 0 = 2
    BY <2>1
  <2>4. MayLeave(left, 1, <<>>) /\ MayLeave(left, 2, <<>>) /\ MayLeave(left, 2 + END, <<>>)
    BY <2>1, <2>3, LeftAt, Sums, Zenon
  <2>5. StepReads(left, 1, May("+QMTRECV"))
    <3>1. Reading(May("+QMTRECV"), "+QMTRECV", 0)
      BY ReadSteps, Zenon
    <3>2. "+QMTRECV" \in Words \ {"ERROR"}
      BY WordFacts
    <3>3. Follows(left, 1, May("+QMTRECV"), <<>>)
      BY <2>3, <2>4, <3>1, <3>2, ReadWord, Sums, Zenon
    <3> QED  BY <2>1, <2>2, <3>3 DEF StepReads
  <2>6. \A i \in 1..1 : i = 1
    OBVIOUS
  <2>7. Describes(left, steps)
    BY <2>1, <2>4, <2>5, <2>6 DEF Describes
  <2> QED  BY <2>7 DEF ReadsToEnd, steps
<1> QED  BY <1>1, <1>2

\* The address of a name: how many there are, and one; or none.
LEMMA ResolveReads == ReadsToEnd(resolveUrl[1].steps)
<1> DEFINE answers == {<<"OK", "dnsgip error">>, <<"OK", "dnsgip count", "dnsgip">>}
           count   == [If("dnsgip count", END) EXCEPT !.kinds = @ \cup {"dnsgip error"},
                                                      !.stop = {"dnsgip error"}]
           steps   == <<Send(answers), Must("OK"), count, Must("dnsgip")>>
           left    == <<{<<>>}, answers \cup {Err}, {<<"dnsgip error">>, <<"dnsgip count", "dnsgip">>},
                        {<<"dnsgip">>}>>
<1>1. resolveUrl[1].steps = steps
  <2>1. resolveUrl = <<Timed(steps)>>
    BY Zenon DEF resolveUrl
  <2> HIDE DEF steps
  <2> QED  BY <2>1 DEF Timed, Default
<1>2. /\ DOMAIN left = 1..4 /\ left[1] = {<<>>} /\ left[2] = answers \cup {Err}
      /\ left[3] = {<<"dnsgip error">>, <<"dnsgip count", "dnsgip">>} /\ left[4] = {<<"dnsgip">>}
      /\ Len(steps) = 4 /\ steps[1] = Send(answers) /\ steps[2] = Must("OK")
      /\ steps[3] = count /\ steps[4] = Must("dnsgip")
  OBVIOUS
<1>3. /\ left[2] \subseteq Seq(Kinds) /\ left[3] \subseteq Seq(Kinds) /\ left[4] \subseteq Seq(Kinds)
  <2>1. /\ <<"OK", "dnsgip error">> \in Seq(Kinds) /\ <<"OK", "dnsgip count", "dnsgip">> \in Seq(Kinds)
        /\ <<"dnsgip error">> \in Seq(Kinds) /\ <<"dnsgip count", "dnsgip">> \in Seq(Kinds)
        /\ <<"dnsgip">> \in Seq(Kinds) /\ Err \in Seq(Kinds)
    <3>1. Err \in Seq(Kinds)
      BY AnswersAre, WordFacts DEF Err
    <3>2. /\ "OK" \in Kinds /\ "dnsgip error" \in Kinds /\ "dnsgip count" \in Kinds /\ "dnsgip" \in Kinds
      BY AnswersAre, WordFacts
    <3> QED  BY <3>1, <3>2, AnswersAre, Zenon
  <2> QED  BY <1>2, <2>1
<1> HIDE DEF left, steps
<1>4. /\ 1 \in 1..7 /\ 2 \in 1..4 /\ 3 \in 1..4 /\ 2 = 1 + 1 /\ 1 \in 1..4 /\ 3 \in 1..8
      /\ 4 \in 1..7 /\ 4 \in 1..4 /\ 4 \in 1..8 /\ 5 \in 1..8
      /\ "OK" # "ERROR" /\ "dnsgip" # "ERROR" /\ "OK" # "dnsgip error" /\ "OK" # "dnsgip count"
      /\ "any" # "dnsgip error" /\ "dnsgip count" # "dnsgip error" /\ "any" # "dnsgip count"
  OBVIOUS
<1>5. /\ <<>> \in left[1] /\ answers \subseteq left[2] /\ Err \in left[2]
      /\ <<"dnsgip error">> \in left[3] /\ <<"dnsgip count", "dnsgip">> \in left[3]
      /\ <<"dnsgip">> \in left[4]
  BY <1>2
<1>6. /\ MayLeave(left, 1, <<>>) /\ MayLeave(left, 3, <<"dnsgip error">>)
      /\ MayLeave(left, 3, <<"dnsgip count", "dnsgip">>) /\ MayLeave(left, 4, <<"dnsgip">>)
      /\ MayLeave(left, 5, <<>>) /\ MayLeave(left, 3 + END, <<>>) /\ MayLeave(left, 4 + END, <<>>)
      /\ MayLeave(left, 5 + END, <<>>)
  BY <1>2, <1>4, <1>5, LeftAt, Sums, Zenon
<1>7. StepReads(left, 1, Send(answers))
  <2> HIDE DEF answers
  <2> QED  BY <1>2, <1>4, <1>5, SendReads, Zenon
<1>8. Reading(Must("OK"), "OK", END) /\ Reading(Must("dnsgip"), "dnsgip", END)
  BY ReadSteps, Zenon
<1>9. "dnsgip" \in Words \ {"ERROR"} /\ "OK" \in Words \ {"ERROR"}
  BY <1>4, WordFacts
<1>10. StepReads(left, 2, Must("OK"))
  <2> DEFINE s == Must("OK")
  <2>1. Reading(s, "OK", END)
    BY <1>8
  <2> HIDE DEF s
  <2>2. Follows(left, 2, s, <<"OK", "dnsgip error">>) /\ Follows(left, 2, s, Err)
    BY <1>4, <1>6, <1>9, <2>1, ReadWord, Sums, Zenon
  <2>3. Follows(left, 2, s, <<"OK", "dnsgip count", "dnsgip">>)
    <3>1. "OK" # "any" /\ "dnsgip count" # "OK"
      OBVIOUS
    <3> QED  BY <1>4, <1>6, <2>1, <3>1, ReadFollows, Sums, Zenon
  <2> QED  BY <1>2, <1>3, <2>2, <2>3 DEF StepReads, s
<1>11. StepReads(left, 3, count)
  <2>1. /\ count.op = "recv" /\ count.stop = {"dnsgip error"} /\ count.hit = 0
        /\ Takes(count, "dnsgip error") /\ Takes(count, "dnsgip count")
    BY DEF If, May, Step0, Takes
  <2> HIDE DEF count
  <2>2. Follows(left, 3, count, <<"dnsgip error">>)
    <3>1. END = IF "dnsgip error" \in count.stop THEN END ELSE count.hit
      BY <2>1, Zenon
    <3>2. 3 \in Nat /\ 4 + END = 3 + 1 + END
      BY DEF END
    <3> QED  BY <1>6, <2>1, <3>1, <3>2, FirstFollows, Zenon
  <2>3. Follows(left, 3, count, <<"dnsgip count", "dnsgip">>)
    <3>1. 0 = IF "dnsgip count" \in count.stop THEN END ELSE count.hit
      BY <1>4, <2>1
    <3>2. 3 \in Nat /\ 4 = 3 + 1 + 0
      OBVIOUS
    <3> QED  BY <1>6, <2>1, <3>1, <3>2, FirstFollows, Zenon
  <2> QED  BY <1>2, <1>3, <2>2, <2>3 DEF StepReads
<1>12. StepReads(left, 4, Must("dnsgip"))
  <2>1. Follows(left, 4, Must("dnsgip"), <<"dnsgip">>)
    BY <1>6, <1>8, <1>9, ReadWord, Sums, Zenon
  <2> QED  BY <1>2, <1>3, <2>1 DEF StepReads
<1>13. \A i \in 1..4 : i = 1 \/ i = 2 \/ i = 3 \/ i = 4
  OBVIOUS
<1>14. Describes(left, steps)
  BY <1>2, <1>6, <1>7, <1>10, <1>11, <1>12, <1>13 DEF Describes
<1> QED  BY <1>1, <1>14 DEF ReadsToEnd

\* The certificate: the reply ends the part, and without one the error is asked for.
LEMMA CertificateReads == ReadsToEnd(configure_cacert_path[1].steps)
<1> DEFINE done  == [Must("OK") EXCEPT !.hit = END, !.miss = 0]
           u     == Send({<<"+QIGETERROR", "OK">>})
           v     == Send({<<"+QSSLCFG", "OK">>})
           r     == If("+QIGETERROR", 1)
           s     == May("OK")
           p     == Send({<<"OK">>})
           steps == <<p, done, u, r, s, v, s>>
           left  == <<{<<>>}, {<<"OK">>, Err}, {<<>>}, {<<"+QIGETERROR", "OK">>, Err}, {<<"OK">>},
                      {<<>>}, {<<"+QSSLCFG", "OK">>, Err}>>
<1>1. configure_cacert_path[1].steps = steps
  <2>1. configure_cacert_path = <<Timed(steps)>>
    BY Zenon DEF configure_cacert_path, Plain, Asks
  <2> HIDE DEF steps
  <2> QED  BY <2>1 DEF Timed, Default
<1>2. /\ DOMAIN left = 1..7 /\ left[1] = {<<>>} /\ left[2] = {<<"OK">>, Err} /\ left[3] = {<<>>}
      /\ left[4] = {<<"+QIGETERROR", "OK">>, Err} /\ left[5] = {<<"OK">>} /\ left[6] = {<<>>}
      /\ left[7] = {<<"+QSSLCFG", "OK">>, Err}
      /\ Len(steps) = 7 /\ steps[1] = p /\ steps[2] = done /\ steps[3] = u /\ steps[4] = r
      /\ steps[5] = s /\ steps[6] = v /\ steps[7] = s
  <2> HIDE DEF done, u, v, r, s, p
  <2> QED  OBVIOUS
<1>3. /\ left[2] \subseteq Seq(Kinds) /\ left[4] \subseteq Seq(Kinds) /\ left[5] \subseteq Seq(Kinds)
      /\ left[7] \subseteq Seq(Kinds)
  <2>1. /\ <<"+QIGETERROR", "OK">> \in Seq(Kinds) /\ <<"+QSSLCFG", "OK">> \in Seq(Kinds)
        /\ <<"OK">> \in Seq(Kinds) /\ Err \in Seq(Kinds)
    BY AnswersAre, WordFacts DEF Err
  <2> QED  BY <1>2, <2>1
<1> HIDE DEF left, steps
<1>4. /\ 1 \in 1..7 /\ 2 \in 1..7 /\ 3 \in 1..7 /\ 4 \in 1..7 /\ 5 \in 1..7 /\ 6 \in 1..7 /\ 7 \in 1..7
      /\ 2 = 1 + 1 /\ 4 = 3 + 1 /\ 7 = 6 + 1 /\ 3 \in 1..8 /\ 5 \in 1..8 /\ 8 \in 1..8
      /\ 8 + 0 = 8 /\ 6 + 0 = 6
      /\ "+QIGETERROR" # "ERROR" /\ "OK" # "ERROR" /\ "OK" # "+QIGETERROR" /\ "+QSSLCFG" # "OK"
  OBVIOUS
<1>5. /\ <<>> \in left[1] /\ {<<"OK">>} \subseteq left[2] /\ Err \in left[2] /\ <<>> \in left[3]
      /\ {<<"+QIGETERROR", "OK">>} \subseteq left[4] /\ Err \in left[4] /\ <<"OK">> \in left[5]
      /\ <<>> \in left[6] /\ {<<"+QSSLCFG", "OK">>} \subseteq left[7] /\ Err \in left[7]
  BY <1>2
<1>6. /\ MayLeave(left, 1, <<>>) /\ MayLeave(left, 3, <<>>) /\ MayLeave(left, 5, <<"OK">>)
      /\ MayLeave(left, 6, <<>>) /\ MayLeave(left, 8, <<>>) /\ MayLeave(left, 3 + END, <<>>)
  BY <1>2, <1>4, <1>5, LeftAt, Sums, Zenon
<1>7. StepReads(left, 1, p) /\ StepReads(left, 3, u) /\ StepReads(left, 6, v)
  BY <1>2, <1>4, <1>5, SendReads, Zenon
<1>8. Reading(r, "+QIGETERROR", 1) /\ Reading(s, "OK", 0)
  BY ReadSteps, Zenon
<1>9. "+QIGETERROR" \in Words \ {"ERROR"} /\ "OK" \in Words \ {"ERROR"}
  BY <1>4, WordFacts
<1> HIDE DEF r, s, u, v, p
<1>10. StepReads(left, 2, done)
  <2>1. /\ done.op = "recv" /\ done.stop = {} /\ done.hit = END /\ done.miss = 0
        /\ done.kinds = {"OK"}
    BY DEF Must, Step0
  <2>2. "any" # "OK"
    OBVIOUS
  <2> HIDE DEF done
  <2>3. Takes(done, "OK") /\ ~Takes(done, "ERROR")
    BY <1>4, <2>1, <2>2 DEF Takes
  <2>4. Follows(left, 2, done, <<"OK">>)
    <3>1. END = IF "OK" \in done.stop THEN END ELSE done.hit
      BY <2>1
    <3>2. 2 \in Nat /\ 3 + END = 2 + 1 + END
      BY DEF END
    <3> QED  BY <1>6, <2>1, <2>3, <3>1, <3>2, FirstFollows, Zenon
  <2>5. Follows(left, 2, done, Err)
    <3>1. 3 = 2 + 1 + done.miss
      BY <2>1
    <3> QED  BY <1>6, <2>1, <2>3, <3>1, NoneFollows, Zenon DEF Err
  <2> QED  BY <1>2, <1>3, <2>4, <2>5 DEF StepReads
<1>11. StepReads(left, 4, r)
  <2>1. Follows(left, 4, r, <<"+QIGETERROR", "OK">>) /\ Follows(left, 4, r, Err)
    BY <1>4, <1>6, <1>8, <1>9, ReadWord, Sums, Zenon
  <2> QED  BY <1>2, <1>3, <2>1 DEF StepReads
<1>12. StepReads(left, 5, s)
  <2>1. Follows(left, 5, s, <<"OK">>)
    BY <1>6, <1>8, <1>9, ReadWord, Sums, Zenon
  <2> QED  BY <1>2, <1>3, <2>1 DEF StepReads
<1>13. StepReads(left, 7, s)
  <2>1. Follows(left, 7, s, <<"+QSSLCFG", "OK">>) /\ Follows(left, 7, s, Err)
    BY <1>4, <1>6, <1>8, <1>9, ReadWord, Sums, Zenon
  <2> QED  BY <1>2, <1>3, <2>1 DEF StepReads
<1>14. \A i \in 1..7 : i = 1 \/ i = 2 \/ i = 3 \/ i = 4 \/ i = 5 \/ i = 6 \/ i = 7
  OBVIOUS
<1>15. Describes(left, steps)
  <2>1. \A i \in 1..7 : StepReads(left, i, steps[i])
    BY <1>2, <1>7, <1>10, <1>11, <1>12, <1>13, <1>14
  <2> QED  BY <1>2, <1>6, <2>1 DEF Describes
<1> QED  BY <1>1, <1>15 DEF ReadsToEnd

\* The model and the revision, whose texts are any line.
LEMMA RevReads == ReadsToEnd(getRev[1].steps)
<1> DEFINE u     == Send({<<"text", "OK">>})
           r     == Must("OK")
           steps == <<u, r, AnyLine, r, u, AnyLine, r>>
           left  == <<{<<>>}, {<<"text", "OK">>, Err}, {<<>>}, {<<>>}, {<<>>},
                      {<<"text", "OK">>, Err}, {<<"OK">>, <<>>}>>
<1>1. getRev[1].steps = steps
  <2>1. getRev = <<Default(steps)>>
    BY Zenon DEF getRev, Asks
  <2> HIDE DEF steps
  <2> QED  BY <2>1 DEF Default
<1>2. /\ DOMAIN left = 1..7 /\ left[1] = {<<>>} /\ left[2] = {<<"text", "OK">>, Err}
      /\ left[3] = {<<>>} /\ left[4] = {<<>>} /\ left[5] = {<<>>}
      /\ left[6] = {<<"text", "OK">>, Err} /\ left[7] = {<<"OK">>, <<>>}
      /\ Len(steps) = 7 /\ steps[1] = u /\ steps[2] = r /\ steps[3] = AnyLine /\ steps[4] = r
      /\ steps[5] = u /\ steps[6] = AnyLine /\ steps[7] = r
  <2> HIDE DEF u, r
  <2> QED  OBVIOUS
<1>3. \A i \in 1..7 : left[i] \subseteq Seq(Kinds)
  <2>1. /\ <<"text", "OK">> \in Seq(Kinds) /\ <<>> \in Seq(Kinds)
        /\ <<"OK">> \in Seq(Kinds) /\ Err \in Seq(Kinds)
    BY AnswersAre, WordFacts DEF Err
  <2> HIDE DEF left
  <2>2. \A i \in 1..7 : i = 1 \/ i = 2 \/ i = 3 \/ i = 4 \/ i = 5 \/ i = 6 \/ i = 7
    OBVIOUS
  <2> QED  BY <1>2, <2>1, <2>2
<1> HIDE DEF left, steps
<1>4. /\ 1 \in 1..7 /\ 2 \in 1..7 /\ 3 \in 1..7 /\ 4 \in 1..7 /\ 5 \in 1..7 /\ 6 \in 1..7 /\ 7 \in 1..7
      /\ 2 = 1 + 1 /\ 6 = 5 + 1 /\ 3 \in 1..8 /\ 4 \in 1..8 /\ 5 \in 1..8 /\ 7 \in 1..8 /\ 8 \in 1..8
      /\ "OK" # "ERROR" /\ "OK" # "text"
  OBVIOUS
<1>5. /\ <<>> \in left[1] /\ {<<"text", "OK">>} \subseteq left[2] /\ Err \in left[2] /\ <<>> \in left[3]
      /\ <<>> \in left[4] /\ <<>> \in left[5] /\ {<<"text", "OK">>} \subseteq left[6] /\ Err \in left[6]
      /\ <<"OK">> \in left[7] /\ <<>> \in left[7]
  BY <1>2
<1>6. /\ MayLeave(left, 1, <<>>) /\ MayLeave(left, 3, <<>>) /\ MayLeave(left, 4, <<>>)
      /\ MayLeave(left, 5, <<>>) /\ MayLeave(left, 7, <<"OK">>) /\ MayLeave(left, 7, <<>>)
      /\ MayLeave(left, 8, <<>>) /\ MayLeave(left, 3 + END, <<>>) /\ MayLeave(left, 4 + END, <<>>)
      /\ MayLeave(left, 5 + END, <<>>) /\ MayLeave(left, 8 + END, <<>>)
  BY <1>2, <1>4, <1>5, LeftAt, Sums, Zenon
<1>7. StepReads(left, 1, u) /\ StepReads(left, 5, u)
  BY <1>2, <1>4, <1>5, SendReads, Zenon
<1>8. Reading(r, "OK", END)
  BY ReadSteps, Zenon
<1>9. "OK" \in Words \ {"ERROR"}
  BY <1>4, WordFacts
<1>10. /\ AnyLine.op = "recv" /\ AnyLine.stop = {} /\ AnyLine.hit = 0 /\ AnyLine.miss = END
       /\ \A k : Takes(AnyLine, k)
  BY DEF AnyLine, Must, Step0, Takes
<1> HIDE DEF r, u
<1>11. StepReads(left, 2, r)
  <2>1. Follows(left, 2, r, <<"text", "OK">>) /\ Follows(left, 2, r, Err)
    BY <1>4, <1>6, <1>8, <1>9, ReadWord, Sums, Zenon
  <2> QED  BY <1>2, <1>3, <1>4, <2>1 DEF StepReads
<1>12. StepReads(left, 4, r)
  <2>1. Follows(left, 4, r, <<>>)
    BY <1>6, <1>8, <1>9, ReadWord, Sums, Zenon
  <2> QED  BY <1>2, <1>3, <1>4, <2>1 DEF StepReads
<1>13. StepReads(left, 7, r)
  <2>1. Follows(left, 7, r, <<"OK">>) /\ Follows(left, 7, r, <<>>)
    BY <1>6, <1>8, <1>9, ReadWord, Sums, Zenon
  <2> QED  BY <1>2, <1>3, <1>4, <2>1 DEF StepReads
<1>14. StepReads(left, 3, AnyLine)
  <2>1. 4 + END = 3 + 1 + AnyLine.miss /\ 3 + 1 + AnyLine.hit = 4 /\ 3 + 1 = 4
    BY <1>10
  <2>2. Follows(left, 3, AnyLine, <<>>)
    BY <1>6, <1>10, <2>1, NoneFollows, Zenon
  <2> QED  BY <1>2, <1>3, <1>4, <2>2 DEF StepReads
<1>15. StepReads(left, 6, AnyLine)
  <2>1. 6 \in Nat /\ 7 = 6 + 1 + 0 /\ \A k : 0 = IF k \in AnyLine.stop THEN END ELSE AnyLine.hit
    BY <1>10
  <2>2. Follows(left, 6, AnyLine, <<"text", "OK">>) /\ Follows(left, 6, AnyLine, Err)
    BY <1>6, <1>10, <2>1, FirstFollows, Zenon DEF Err
  <2> QED  BY <1>2, <1>3, <1>4, <2>2 DEF StepReads
<1>16. \A i \in 1..7 : i = 1 \/ i = 2 \/ i = 3 \/ i = 4 \/ i = 5 \/ i = 6 \/ i = 7
  OBVIOUS
<1>17. Describes(left, steps)
  <2>1. \A i \in 1..7 : StepReads(left, i, steps[i])
    BY <1>2, <1>7, <1>11, <1>12, <1>13, <1>14, <1>15, <1>16
  <2> QED  BY <1>2, <1>6, <2>1 DEF Describes
<1> QED  BY <1>1, <1>17 DEF ReadsToEnd

MethodReads(parts) == \A p \in DOMAIN parts : ReadsToEnd(parts[p].steps)

\* A method of one part, and of more.
LEMMA SectionReads ==
  /\ \A s : ReadsToEnd(s) => MethodReads(<<Default(s)>>) /\ MethodReads(<<Timed(s)>>)
  /\ \A p, s, x, y : PartIs(p, s, x, y) /\ ReadsToEnd(s) => ReadsToEnd(p.steps)
  /\ \A p : ReadsToEnd(p.steps) => MethodReads(<<p>>)
  /\ \A p, q : ReadsToEnd(p.steps) /\ ReadsToEnd(q.steps) => MethodReads(<<p, q>>)
  /\ \A p, q, r : ReadsToEnd(p.steps) /\ ReadsToEnd(q.steps) /\ ReadsToEnd(r.steps) =>
       MethodReads(<<p, q, r>>)
<1>1. ASSUME NEW p, ReadsToEnd(p.steps)  PROVE MethodReads(<<p>>)
  BY <1>1 DEF MethodReads
<1>2. ASSUME NEW s, ReadsToEnd(s)
      PROVE  MethodReads(<<Default(s)>>) /\ MethodReads(<<Timed(s)>>)
  <2>1. ReadsToEnd(Default(s).steps) /\ ReadsToEnd(Timed(s).steps)
    BY <1>2 DEF Default, Timed
  <2> QED  BY <1>1, <2>1
<1>3. ASSUME NEW p, NEW s, NEW x, NEW y, PartIs(p, s, x, y), ReadsToEnd(s)
      PROVE  ReadsToEnd(p.steps)
  BY <1>3 DEF PartIs
<1>4. ASSUME NEW p, NEW q, ReadsToEnd(p.steps), ReadsToEnd(q.steps)
      PROVE  MethodReads(<<p, q>>)
  BY <1>4 DEF MethodReads
<1>5. ASSUME NEW p, NEW q, NEW r, ReadsToEnd(p.steps), ReadsToEnd(q.steps), ReadsToEnd(r.steps)
      PROVE  MethodReads(<<p, q, r>>)
  BY <1>5 DEF MethodReads
<1> QED  BY <1>1, <1>2, <1>3, <1>4, <1>5

\* AT+X and its OK.
LEMMA PlainReads ==
  /\ ReadsToEnd(<<Plain, Must("OK")>>)
  /\ MethodReads(tx2bg96) /\ MethodReads(configure_pdp_context) /\ MethodReads(getSIMStatus)
  /\ MethodReads(disconnect) /\ MethodReads(close) /\ MethodReads(startGNSS)
  /\ MethodReads(stopGNSS) /\ MethodReads(configure_client_cert_path)
  /\ MethodReads(configure_privkey_path) /\ MethodReads(sslclose) /\ MethodReads(fs_delete_file)
  /\ MethodReads(fs_seek) /\ MethodReads(fs_truncate) /\ MethodReads(fs_close)
  /\ MethodReads(send_generic_cmd) /\ MethodReads(connect_pdp)
<1> DEFINE s == <<Plain, Must("OK")>>
<1>1. ReadsToEnd(s)
  <2>1. "OK" \in Words \ {"ERROR"} /\ Reading(Must("OK"), "OK", END)
    <3>1. Reading(Must("OK"), "OK", END)
      BY ReadSteps, Zenon
    <3> QED  BY <3>1, WordFacts
  <2> QED  BY <2>1, PairReads, Zenon DEF Plain
<1> HIDE DEF s
<1>2. MethodReads(<<Default(s)>>) /\ MethodReads(<<Timed(s)>>)
  BY <1>1, SectionReads, Zenon
<1>3. MethodReads(connect_pdp)
  <2> DEFINE p == Timed(s)
  <2>1. Activate = Followed([p EXCEPT !.own = FALSE], {0}, {0})
    BY Zenon DEF Activate, s
  <2>2. Activate.steps = s
    BY <2>1 DEF Followed, Timed, Default
  <2> QED  BY <1>1, <2>2, SectionReads, Zenon DEF connect_pdp
<1> QED  BY <1>1, <1>2, <1>3, Zenon
         DEF s, tx2bg96, configure_pdp_context, getSIMStatus, disconnect, close,
             startGNSS, stopGNSS, configure_client_cert_path, configure_privkey_path,
             sslclose, fs_delete_file, fs_seek, fs_truncate, fs_close, send_generic_cmd

\* The words that stand for more than the end of an answer.
LEMMA WordsDiffer ==
  \A k \in {"+CREG", "+QIACT", "+QIGETERROR", "+QFLDS", "+QFLST", "+QFOPEN", "+QLTS", "+QSSLOPEN",
            "+QMTCLOSE", "+QMTOPEN", "+QMTCONN", "+QMTPUB", "+QFWRITE", "CONNECT", ">", "SEND OK"} :
     k \in Words \ {"ERROR"} /\ k # "OK"
<1> DEFINE some == {"+CREG", "+QIACT", "+QIGETERROR", "+QFLDS", "+QFLST", "+QFOPEN", "+QLTS",
                    "+QSSLOPEN", "+QMTCLOSE", "+QMTOPEN", "+QMTCONN", "+QMTPUB", "+QFWRITE",
                    "CONNECT", ">", "SEND OK"}
<1>1. "OK" \notin some /\ "ERROR" \notin some
  OBVIOUS
<1>2. some \subseteq Words
  BY WordFacts
<1> HIDE DEF some
<1>3. \A k \in some : k \in Words \ {"ERROR"} /\ k # "OK"
  BY <1>1, <1>2
<1> QED  BY <1>3 DEF some

\* AT+X?, its answer and its OK.
LEMMA AskingReads ==
  /\ \A k \in {"+CREG", "+QIACT", "+QIGETERROR", "+QFLDS", "+QFLST", "+QFOPEN", "+QLTS"} :
       ReadsToEnd(<<Asks(k), Must(k), Must("OK")>>)
  /\ MethodReads(getCSServiceStatus) /\ MethodReads(<<getError>>) /\ ReadsToEnd(getError.steps)
  /\ MethodReads(fs_size) /\ MethodReads(fs_nfiles) /\ MethodReads(fs_file_size)
  /\ MethodReads(fs_open) /\ MethodReads(getLatesSyncTime) /\ MethodReads(getIPAddress)
<1> DEFINE some == {"+CREG", "+QIACT", "+QIGETERROR", "+QFLDS", "+QFLST", "+QFOPEN", "+QLTS"}
           s(k) == <<Asks(k), Must(k), Must("OK")>>
<1>1. ASSUME NEW k \in some
      PROVE  ReadsToEnd(s(k))
  <2>1. k \in Words \ {"ERROR"} /\ "OK" # k /\ "OK" \in Words \ {"ERROR"}
    BY WordsDiffer, WordFacts
  <2>2. Reading(Must("OK"), "OK", END) /\ Reading(Must(k), k, END)
    BY ReadSteps, Zenon
  <2> QED  BY <2>1, <2>2, ResultReads, Zenon DEF Asks
<1>2. /\ "+CREG" \in some /\ "+QIACT" \in some /\ "+QIGETERROR" \in some /\ "+QFLDS" \in some
      /\ "+QFLST" \in some /\ "+QFOPEN" \in some /\ "+QLTS" \in some
  OBVIOUS
<1>3. ASSUME NEW k \in some
      PROVE  MethodReads(<<Default(s(k))>>) /\ MethodReads(<<Timed(s(k))>>)
  BY <1>1, SectionReads, Zenon
<1>4. ReadsToEnd(getError.steps)
  <2>1. getError.steps = s("+QIGETERROR")
    <3> DEFINE p == s("+QIGETERROR")
    <3>1. getError = Default(p)
      BY Zenon DEF getError
    <3> HIDE DEF p
    <3>2. getError.steps = p
      BY <3>1 DEF Default
    <3> QED  BY <3>2 DEF p
  <2> QED  BY <1>1, <1>2, <2>1
<1>5. MethodReads(getIPAddress)
  <2> DEFINE p == s("+QIACT")
  <2>1. getIPAddress = <<[Timed(p) EXCEPT !.flush = TRUE]>>
    BY Zenon DEF getIPAddress
  <2>2. ReadsToEnd(p)
    BY <1>1, <1>2
  <2> HIDE DEF p
  <2>3. [Timed(p) EXCEPT !.flush = TRUE].steps = p
    BY DEF Timed, Default
  <2> QED  BY <2>1, <2>2, <2>3, SectionReads, Zenon
<1> HIDE DEF some
<1>6. \A k \in some : ReadsToEnd(<<Asks(k), Must(k), Must("OK")>>)
  BY <1>1
<1>7. /\ MethodReads(getCSServiceStatus) /\ MethodReads(<<getError>>)
      /\ MethodReads(fs_size) /\ MethodReads(fs_nfiles) /\ MethodReads(fs_file_size)
      /\ MethodReads(fs_open) /\ MethodReads(getLatesSyncTime)
  BY <1>2, <1>3, Zenon
     DEF getCSServiceStatus, getError, fs_size, fs_nfiles, fs_file_size, fs_open, getLatesSyncTime
<1> QED  BY <1>4, <1>5, <1>6, <1>7 DEF some

\* Commands whose result follows their OK, and others of two lines.
LEMMA StartingReads ==
  /\ MethodReads(sslopen) /\ MethodReads(mqtt_close) /\ MethodReads(mqtt_open)
  /\ MethodReads(mqtt_connect) /\ MethodReads(mqtt_disconnect) /\ MethodReads(mqtt_subscribe)
  /\ MethodReads(mqtt_unsubscribe) /\ MethodReads(fs_read) /\ MethodReads(fs_write)
  /\ MethodReads(mqtt_publish)
<1> DEFINE some == {"+QSSLOPEN", "+QMTCLOSE", "+QMTOPEN", "+QMTCONN"}
<1>1. ASSUME NEW k \in some
      PROVE  /\ ReadsToEnd(<<Starts(k), Must("OK"), Must(k)>>)
             /\ ReadsToEnd(<<Starts(k), Must("OK"), May(k)>>)
  <2>1. k \in Words \ {"ERROR"} /\ k # "OK" /\ "OK" \in Words \ {"ERROR"}
    BY WordsDiffer, WordFacts
  <2>2. Reading(Must("OK"), "OK", END) /\ Reading(Must(k), k, END) /\ Reading(May(k), k, 0)
    BY ReadSteps, Zenon
  <2> QED  BY <2>1, <2>2, ResultReads, Zenon DEF Starts
<1>2. ASSUME NEW k \in Strays
      PROVE  ReadsToEnd(<<Starts(k), Must("OK")>>)
  <2>1. "OK" \in Words \ {"ERROR"}
    BY WordFacts
  <2>2. Reading(Must("OK"), "OK", END)
    BY ReadSteps, Zenon
  <2> QED  BY <2>1, <2>2, StrayReads, Zenon DEF Starts
<1>3. /\ "+QSSLOPEN" \in some /\ "+QMTCLOSE" \in some /\ "+QMTOPEN" \in some /\ "+QMTCONN" \in some
      /\ "+QMTDISC" \in Strays /\ "+QMTSUB" \in Strays /\ "+QMTUNS" \in Strays
  BY DEF Strays
<1> HIDE DEF some
<1>4. MethodReads(sslopen) /\ MethodReads(mqtt_close)
  BY <1>1, <1>3, SectionReads, Zenon DEF sslopen, mqtt_close
<1>5. MethodReads(mqtt_disconnect) /\ MethodReads(mqtt_subscribe) /\ MethodReads(mqtt_unsubscribe)
  BY <1>2, <1>3, SectionReads, Zenon DEF mqtt_disconnect, mqtt_subscribe, mqtt_unsubscribe
<1>6. MethodReads(mqtt_open) /\ MethodReads(mqtt_connect)
  <2>1. ASSUME NEW k \in some
        PROVE  ReadsToEnd(Followed(Timed(<<Starts(k), Must("OK"), May(k)>>), {0}, {2}).steps)
    <3> DEFINE p == <<Starts(k), Must("OK"), May(k)>>
    <3>1. ReadsToEnd(p)
      BY <1>1
    <3> HIDE DEF p
    <3>2. ReadsToEnd(Followed(Timed(p), {0}, {2}).steps)
      BY <3>1 DEF Followed, Timed, Default
    <3> QED  BY <3>2 DEF p
  <2> QED  BY <1>3, <2>1, AskingReads, SectionReads, Zenon DEF mqtt_open, mqtt_connect
<1>7. MethodReads(fs_read)
  <2>1. "CONNECT" \in Words \ {"ERROR"} /\ "OK" # "CONNECT" /\ "OK" \in Words \ {"ERROR"}
    BY WordFacts
  <2>2. Reading(Must("OK"), "OK", END) /\ Reading(Must("CONNECT"), "CONNECT", END)
    BY ReadSteps, Zenon
  <2>3. ReadsToEnd(<<Send({<<"CONNECT", "OK">>}), Must("CONNECT"), Must("OK")>>)
    BY <2>1, <2>2, ResultReads, Zenon
  <2> QED  BY <2>3, SectionReads, Zenon DEF fs_read
<1>8. MethodReads(fs_write)
  <2>1. /\ "CONNECT" \in Words \ {"ERROR"} /\ "OK" \in Words \ {"ERROR"}
        /\ "+QFWRITE" \in Words /\ "+QFWRITE" # "OK"
    BY WordFacts
  <2>2. Reading(Must("OK"), "OK", END) /\ Reading(Must("CONNECT"), "CONNECT", END)
    BY ReadSteps, Zenon
  <2>3. ReadsToEnd(<<Send({<<"CONNECT">>}), Must("CONNECT"), Send({<<"+QFWRITE", "OK">>}), Must("OK")>>)
    BY <2>1, <2>2, DataReads, Zenon
  <2> QED  BY <2>3, SectionReads, Zenon DEF fs_write
<1>9. MethodReads(mqtt_publish)
  <2> DEFINE r == [Must(">") EXCEPT !.keeps = TRUE]
  <2>1. /\ ">" \in Words \ {"ERROR"} /\ "+QMTPUB" \in Words \ {"ERROR"}
        /\ "OK" \in Words /\ "OK" # "+QMTPUB"
    BY WordFacts
  <2>2. Reading(Must("+QMTPUB"), "+QMTPUB", END) /\ Reading(r, ">", END)
    BY ReadSteps, Zenon
  <2>3. mqtt_publish = <<Timed(<<Send({<<">">>}), r, Send({<<"OK", "+QMTPUB">>}), Must("+QMTPUB")>>)>>
    BY Zenon DEF mqtt_publish, Prompted, Starts
  <2> HIDE DEF r
  <2>4. ReadsToEnd(<<Send({<<">">>}), r, Send({<<"OK", "+QMTPUB">>}), Must("+QMTPUB")>>)
    BY <2>1, <2>2, DataReads, Zenon
  <2> QED  BY <2>3, <2>4, SectionReads, Zenon
<1> QED  BY <1>4, <1>5, <1>6, <1>7, <1>8, <1>9

\* Data after a prompt, the file to upload, and the methods of a kind of their own.
LEMMA OtherReads ==
  /\ MethodReads(send) /\ MethodReads(sslsend) /\ MethodReads(sslsend_timeout)
  /\ MethodReads(fs_upload_file) /\ MethodReads(send_file) /\ MethodReads(BG96Ready)
  /\ MethodReads(mqtt_checkAvail) /\ MethodReads(resolveUrl)
  /\ MethodReads(configure_cacert_path) /\ MethodReads(getRev)
<1>1. MethodReads(send) /\ MethodReads(sslsend) /\ MethodReads(sslsend_timeout)
  <2>1. /\ ">" \in Words \ {"ERROR"} /\ "SEND OK" \in Words \ {"ERROR"}
        /\ 1 \in {1, END} /\ END \in {1, END} /\ 0 \in {0, END} /\ END \in {0, END}
    BY WordFacts
  <2>2. /\ Reading(Must("SEND OK"), "SEND OK", END) /\ Reading(May("SEND OK"), "SEND OK", 0)
        /\ Reading(If(">", 1), ">", 1) /\ Reading(If(">", END), ">", END)
    BY ReadSteps, Zenon
  <2>3. /\ ReadsToEnd(<<Prompted, If(">", 1), Send({<<"SEND OK">>}), Must("SEND OK")>>)
        /\ ReadsToEnd(<<Prompted, If(">", 1), Send({<<"SEND OK">>}), May("SEND OK")>>)
        /\ ReadsToEnd(<<Prompted, If(">", END), Send({<<"SEND OK">>}), May("SEND OK")>>)
    <3>1. ASSUME NEW n \in {1, END}, NEW r, Reading(r, ">", n), NEW m \in {0, END}, NEW s,
                 Reading(s, "SEND OK", m)
          PROVE  ReadsToEnd(<<Prompted, r, Send({<<"SEND OK">>}), s>>)
      BY <2>1, <3>1, PromptReads, Zenon DEF Prompted
    <3> QED  BY <2>1, <2>2, <3>1, Zenon
  <2> QED  BY <2>3, SectionReads, Zenon DEF send, sslsend, sslsend_timeout
<1>2. MethodReads(fs_upload_file)
  BY UploadReads, SectionReads, Zenon DEF fs_upload_file
<1>3. MethodReads(send_file)
  <2> DEFINE p == <<Asks("+QFLST"), Must("+QFLST"), Must("OK")>>
             q == <<Plain, Must("OK")>>
  <2>1. send_file = <<Followed(Timed(p), {0, 2}, {3}), Followed(Default(q), {3}, {0}), Upload>>
    BY Zenon DEF send_file, file_exists, delete_file
  <2>2. ReadsToEnd(p) /\ ReadsToEnd(q)
    <3>1. "+QFLST" \in {"+CREG", "+QIACT", "+QIGETERROR", "+QFLDS", "+QFLST", "+QFOPEN", "+QLTS"}
      OBVIOUS
    <3> QED  BY <3>1, AskingReads, PlainReads, Zenon
  <2> HIDE DEF p, q
  <2>3. /\ ReadsToEnd(Followed(Timed(p), {0, 2}, {3}).steps)
        /\ ReadsToEnd(Followed(Default(q), {3}, {0}).steps)
    BY <2>2 DEF Followed, Timed, Default
  <2> QED  BY <2>1, <2>3, UploadReads, SectionReads, Zenon
<1>4. MethodReads(BG96Ready) /\ MethodReads(mqtt_checkAvail)
  BY WaitsRead, SectionReads, Zenon DEF BG96Ready, mqtt_checkAvail
<1>5. MethodReads(resolveUrl) /\ MethodReads(configure_cacert_path) /\ MethodReads(getRev)
  <2>1. ASSUME NEW p, ReadsToEnd(<<p>>[1].steps)
        PROVE  MethodReads(<<p>>)
    BY <2>1, SectionReads
  <2>2. \E p : resolveUrl = <<p>>
    BY Zenon DEF resolveUrl
  <2>3. \E p : configure_cacert_path = <<p>>
    BY Zenon DEF configure_cacert_path
  <2>4. \E p : getRev = <<p>>
    BY Zenon DEF getRev
  <2> QED  BY <2>1, <2>2, <2>3, <2>4, ResolveReads, CertificateReads, RevReads, Zenon
<1> QED  BY <1>1, <1>2, <1>3, <1>4, <1>5

\* All the methods but those of Untidy read their answer to its end.
LEMMA TableIsRead == TableReads
<1> SUFFICES ASSUME NEW m \in DOMAIN Table \ Untidy  PROVE MethodReads(Table[m])
  BY DEF TableReads, MethodReads
<1> QED  BY PlainReads, AskingReads, StartingReads, OtherReads DEF Table, Untidy

-----------------------------------------------------------------------------
(* The channel.                                                            *)

\* The threads that are about to lock the mutex.
Waiting == {t \in Threads : call[t].at = "lock"}

RecordsOK ==
    /\ mutex = [owner |-> mutex.owner, count |-> mutex.count]
    /\ call = [t \in Threads |-> [at |-> call[t].at, method |-> call[t].method,
                                  part |-> call[t].part, step |-> call[t].step,
                                  ok |-> call[t].ok]]

\* Where a thread is, and that it has the mutex there.
PlacesOK == \A t \in Threads :
    /\ call[t].at \in {"idle", "lock", "in"} /\ call[t].ok \in BOOLEAN
    /\ call[t].at # "idle" =>
         /\ call[t].method \in DOMAIN Table
         /\ call[t].part \in DOMAIN Table[call[t].method]
         /\ call[t].step \in Nat \ {0}
    /\ call[t].at = "in" => mutex.owner = t

\* The mutex is locked no more often than calls were made, less those that wait.
LocksCounted ==
    /\ mutex.owner \in Threads \cup {NoThread} /\ mutex.count \in Nat
    /\ mutex.count = 0 <=> mutex.owner = NoThread
    /\ IsFiniteSet(Waiting) /\ mutex.count + Cardinality(Waiting) <= calls
    /\ calls \in 0..MAX_CALLS /\ lates \in 0..MAX_LATE

\* The mutex has been kept: its owner is outside, or has locked it more than once.
MutexKept == mutex.owner # NoThread /\ (call[mutex.owner].at # "in" \/ mutex.count > 1)

KeptByThose == keepers \subseteq Keeping /\ (MutexKept => keepers # {})

\* connect has let go of the mutex and is about to activate the context.
Activating(t) == call[t].at = "lock" /\ call[t].method = "connect" /\ call[t].part = 2

\* Where the time-out is a method's own, connect is between its parts, or the mutex
\* is kept, or the method that has it will set the default one, or is connect.
OwnHasReason == timeout = "own" =>
    \/ \E t \in Threads : Activating(t)
    \/ MutexKept
    \/ \E t \in Threads : /\ mutex.owner = t /\ call[t].at = "in"
                          /\ Part(t).back = TRUE \/ (call[t].method = "connect" /\ call[t].part = 1)

\* The inductive invariant.
IInv == /\ RecordsOK /\ PlacesOK /\ LocksCounted /\ KeptByThose
        /\ timeout \in {"AT", "own"} /\ OwnHasReason

-----------------------------------------------------------------------------
(* How a step moves a thread.                                              *)

\* One thread moves, the others stay where they are.
LEMMA OneMoves ==
  ASSUME RecordsOK, NEW t \in Threads, NEW a, NEW m, NEW p, NEW s, NEW o,
         call' = [call EXCEPT ![t] = [at |-> a, method |-> m, part |-> p, step |-> s, ok |-> o]]
  PROVE  /\ call'[t].at = a /\ call'[t].method = m /\ call'[t].part = p
         /\ call'[t].step = s /\ call'[t].ok = o
         /\ \A u \in Threads \ {t} : call'[u] = call[u]
         /\ call' = [u \in Threads |-> [at |-> call'[u].at, method |-> call'[u].method,
                                        part |-> call'[u].part, step |-> call'[u].step,
                                        ok |-> call'[u].ok]]
<1> DEFINE c == [at |-> a, method |-> m, part |-> p, step |-> s, ok |-> o]
           f == [u \in Threads |-> [at |-> call[u].at, method |-> call[u].method,
                                    part |-> call[u].part, step |-> call[u].step,
                                    ok |-> call[u].ok]]
<1>1. /\ c.at = a /\ c.method = m /\ c.part = p /\ c.step = s /\ c.ok = o
      /\ c = [at |-> c.at, method |-> c.method, part |-> c.part, step |-> c.step, ok |-> c.ok]
  OBVIOUS
<1>2. call = f /\ call' = [call EXCEPT ![t] = c]
  BY DEF RecordsOK
<1> HIDE DEF c
<1>3. DOMAIN call = Threads
  BY <1>2
<1>4. \A u \in Threads : call[u] = [at |-> call[u].at, method |-> call[u].method,
                                    part |-> call[u].part, step |-> call[u].step,
                                    ok |-> call[u].ok]
  BY <1>2, Zenon
<1> HIDE DEF f
<1>5. call'[t] = c /\ DOMAIN call' = Threads /\ \A u \in Threads \ {t} : call'[u] = call[u]
  BY <1>2, <1>3
<1>6. call' = [u \in Threads |-> call'[u]]
  BY <1>2, <1>3
<1>7. \A u \in Threads : call'[u] = [at |-> call'[u].at, method |-> call'[u].method,
                                     part |-> call'[u].part, step |-> call'[u].step,
                                     ok |-> call'[u].ok]
  BY <1>1, <1>4, <1>5
<1>8. call' = [u \in Threads |-> [at |-> call'[u].at, method |-> call'[u].method,
                                  part |-> call'[u].part, step |-> call'[u].step,
                                  ok |-> call'[u].ok]]
  BY <1>6, <1>7
<1> QED  BY <1>1, <1>5, <1>8

\* The place of a thread that goes on, and what it comes to.
Onward(c, s, o) == [[c EXCEPT !.step = s] EXCEPT !.ok = o]

LEMMA OnwardMoves ==
  ASSUME NEW a, NEW m, NEW p, NEW k, NEW b, NEW s, NEW o, NEW c,
         c = [at |-> a, method |-> m, part |-> p, step |-> k, ok |-> b]
  PROVE  Onward(c, s, o) = [at |-> a, method |-> m, part |-> p, step |-> s, ok |-> o]
<1> DEFINE d == [c EXCEPT !.step = s]
<1>1. d = [at |-> a, method |-> m, part |-> p, step |-> s, ok |-> b]
  OBVIOUS
<1> HIDE DEF d
<1>2. [d EXCEPT !.ok = o] = [at |-> a, method |-> m, part |-> p, step |-> s, ok |-> o]
  BY <1>1
<1> QED  BY <1>2 DEF d, Onward

LEMMA GoesOn ==
  ASSUME RecordsOK, NEW t \in Threads, NEW n, NEW ok \in BOOLEAN, call[t].ok \in BOOLEAN,
         GoOn(t, n, ok)
  PROVE  \E o \in BOOLEAN :
           call' = [call EXCEPT ![t] = [at |-> call[t].at, method |-> call[t].method,
                                        part |-> call[t].part, step |-> call[t].step + 1 + n,
                                        ok |-> o]]
<1> DEFINE s == call[t].step + 1 + n
           o == call[t].ok /\ ok
<1>1. /\ DOMAIN call = Threads
      /\ call[t] = [at |-> call[t].at, method |-> call[t].method, part |-> call[t].part,
                    step |-> call[t].step, ok |-> call[t].ok]
  BY DEF RecordsOK
<1>2. call' = [call EXCEPT ![t] = Onward(call[t], s, o)]
  BY <1>1 DEF GoOn, Onward
<1>3. o \in BOOLEAN
  OBVIOUS
<1> HIDE DEF s, o
<1>4. Onward(call[t], s, o) = [at |-> call[t].at, method |-> call[t].method,
                               part |-> call[t].part, step |-> s, ok |-> o]
  BY <1>1, OnwardMoves
<1> QED  BY <1>2, <1>3, <1>4 DEF s

\* What the steps of a method have in common.
StepOf(m, i, s) == /\ s.hit \in Nat /\ s.miss \in Nat
                   /\ s.answers \subseteq Seq(Kinds) /\ s.kinds \cap Strays = {}
                   /\ m \notin Keeping => s.keeps = FALSE
                   /\ s.kinds \subseteq Words \/ (m = "getRev" /\ i >= 3)
                   /\ m = "getRev" =>
                        /\ s.answers \subseteq Seq(Words)
                        /\ i = 1 => s.op = "send"
                        /\ i = 2 => s.op = "recv"

LEMMA StepsOfMethod ==
  ASSUME NEW m \in DOMAIN Table, NEW p \in DOMAIN Table[m]
  PROVE  /\ Len(Table[m][p].steps) \in Nat
         /\ \A i \in 1..Len(Table[m][p].steps) : StepOf(m, i, Table[m][p].steps[i])
<1> DEFINE parts == Table[m]
           steps == parts[p].steps
<1>1. ASSUME StepsSound(steps), m # "getRev", m \in Keeping
      PROVE  Len(steps) \in Nat /\ \A i \in 1..Len(steps) : StepOf(m, i, steps[i])
  BY <1>1, AnswersAre DEF StepsSound, StepSound, StepOf
<1>2. ASSUME StepsTidy(steps), m # "getRev"
      PROVE  Len(steps) \in Nat /\ \A i \in 1..Len(steps) : StepOf(m, i, steps[i])
  BY <1>2, AnswersAre DEF StepsTidy, StepTidy, StepSound, StepOf
<1>3. ASSUME RevTidy(parts), m = "getRev"
      PROVE  Len(steps) \in Nat /\ \A i \in 1..Len(steps) : StepOf(m, i, steps[i])
  <2>1. p = 1
    BY <1>3 DEF RevTidy
  <2>2. /\ Len(steps) \in Nat
        /\ \A i \in 1..Len(steps) :
             /\ steps[i].hit \in Nat /\ steps[i].miss \in Nat /\ steps[i].keeps = FALSE
             /\ steps[i].answers \subseteq Seq(Words) /\ steps[i].kinds \cap Strays = {}
             /\ i = 1 => steps[i].op = "send"
             /\ i = 2 => steps[i].op = "recv"
             /\ i \in {1, 2} => steps[i].kinds \subseteq Words
    BY <1>3, <2>1 DEF RevTidy
  <2> HIDE DEF steps
  <2>3. \A i \in 1..Len(steps) : i \in {1, 2} \/ i >= 3
    BY <2>2
  <2>4. Words \subseteq Kinds
    BY DEF Kinds
  <2>5. Seq(Words) \subseteq Seq(Kinds)
    BY <2>4
  <2> QED  BY <1>3, <2>2, <2>3, <2>5 DEF StepOf, Keeping
<1>4. CASE m = "connect"
  <2>1. StepsSound(steps) /\ m # "getRev" /\ m \in Keeping
    BY <1>4, TableIsTidy DEF TableTidy, ConnectTidy, Keeping
  <2> QED  BY <1>1, <2>1
<1>5. CASE m = "mqtt_publish"
  <2>1. StepsSound(steps) /\ m # "getRev" /\ m \in Keeping
    BY <1>5, TableIsTidy DEF TableTidy, PublishTidy, Keeping
  <2> QED  BY <1>1, <2>1
<1>6. CASE m = "getRev"
  <2>1. RevTidy(parts)
    BY <1>6, TableIsTidy DEF TableTidy
  <2> QED  BY <1>3, <1>6, <2>1
<1>7. CASE m \notin {"connect", "mqtt_publish", "getRev"}
  <2>1. StepsTidy(steps)
    BY <1>7, TableIsTidy DEF TableTidy, Tidy
  <2> QED  BY <1>2, <1>7, <2>1
<1> QED  BY <1>4, <1>5, <1>6, <1>7

LEMMA StepIsSound ==
  ASSUME PlacesOK, NEW t \in Threads, NEW op, InStep(t, op)
  PROVE  /\ StepOf(call[t].method, call[t].step, Step(t)) /\ Step(t).op = op
         /\ call[t].step \in 1..Len(Part(t).steps) /\ Step(t) = Part(t).steps[call[t].step]
<1>1. /\ call[t].method \in DOMAIN Table /\ call[t].part \in DOMAIN Table[call[t].method]
      /\ call[t].step \in Nat \ {0} /\ call[t].step <= Len(Part(t).steps) /\ Step(t).op = op
  BY DEF PlacesOK, InStep
<1>2. /\ Len(Part(t).steps) \in Nat
      /\ \A i \in 1..Len(Part(t).steps) : StepOf(call[t].method, i, Part(t).steps[i])
  BY <1>1, StepsOfMethod DEF Part
<1>3. call[t].step \in 1..Len(Part(t).steps)
  BY <1>1, <1>2
<1> QED  BY <1>1, <1>2, <1>3 DEF Step

\* The invariant, for a thread that moves inside its part.
LEMMA InsideKeeps ==
  ASSUME IInv, NEW t \in Threads, call[t].at = "in", NEW s, NEW o \in BOOLEAN,
         call' = [call EXCEPT ![t] = [at |-> "in", method |-> call[t].method,
                                      part |-> call[t].part, step |-> s, ok |-> o]],
         s \in Nat \ {0},
         UNCHANGED <<mutex, calls, keepers>>, timeout' \in {timeout, "AT"},
         lates' \in 0..MAX_LATE
  PROVE  IInv'
<1>1. /\ call'[t].at = "in" /\ call'[t].method = call[t].method
      /\ call'[t].part = call[t].part /\ call'[t].step = s /\ call'[t].ok = o
      /\ \A u \in Threads \ {t} : call'[u] = call[u]
      /\ call' = [u \in Threads |-> [at |-> call'[u].at, method |-> call'[u].method,
                                     part |-> call'[u].part, step |-> call'[u].step,
                                     ok |-> call'[u].ok]]
  BY OneMoves DEF IInv
<1>2. RecordsOK'
  BY <1>1 DEF IInv, RecordsOK
<1>3. PlacesOK'
  BY <1>1 DEF IInv, PlacesOK
<1>4. \A u \in Threads : /\ call'[u].at = call[u].at /\ call'[u].method = call[u].method
                         /\ call'[u].part = call[u].part
  BY <1>1
<1>5. Waiting' = Waiting
  BY <1>4 DEF Waiting
<1>6. LocksCounted'
  BY <1>5 DEF IInv, LocksCounted
<1>7. MutexKept' <=> MutexKept
  BY <1>4 DEF IInv, LocksCounted, MutexKept
<1>8. KeptByThose'
  BY <1>7 DEF IInv, KeptByThose
<1>9. OwnHasReason'
  BY <1>4, <1>7 DEF IInv, OwnHasReason, Activating, Part
<1> QED  BY <1>2, <1>3, <1>6, <1>8, <1>9 DEF IInv

LEMMA InitIInv == Init => IInv
<1> SUFFICES ASSUME Init  PROVE IInv
  OBVIOUS
<1>1. \A t \in Threads : /\ call[t] = Idle /\ call[t].at = "idle" /\ call[t].ok = TRUE
  BY DEF Init, Idle
<1>2. RecordsOK
  <2>1. call = [t \in Threads |-> [at |-> "idle", method |-> "", part |-> 1, step |-> 1, ok |-> TRUE]]
    BY DEF Init, Idle
  <2>2. mutex = [owner |-> NoThread, count |-> 0]
    BY DEF Init
  <2> QED  BY <2>1, <2>2 DEF RecordsOK
<1>3. mutex.owner = NoThread /\ mutex.count = 0
  BY DEF Init
<1>4. PlacesOK
  BY <1>1 DEF PlacesOK
<1>5. Waiting = {}
  BY <1>1 DEF Waiting
<1>6. LocksCounted
  BY <1>3, <1>5, FS_EmptySet, BoundAssumption DEF Init, LocksCounted
<1>7. KeptByThose /\ OwnHasReason
  BY <1>3 DEF Init, KeptByThose, MutexKept, OwnHasReason
<1> QED  BY <1>2, <1>4, <1>6, <1>7 DEF Init, IInv

\* The steps of a part: commands, replies, time-outs, and the default time-out.
LEMMA PartStepKeeps ==
  ASSUME IInv, NEW t \in Threads,
         \/ Transmit(t) \/ Receive(t) \/ SetBack(t) \/ (TimeOut(t) /\ ~Step(t).keeps)
  PROVE  IInv'
<1>1. /\ RecordsOK /\ PlacesOK /\ call[t].at = "in" /\ call[t].ok \in BOOLEAN
      /\ lates \in 0..MAX_LATE
      /\ call[t].step \in Nat \ {0}
  BY DEF IInv, PlacesOK, LocksCounted, Transmit, Receive, SetBack, TimeOut, InStep
<1>2. ASSUME NEW n, NEW ok \in BOOLEAN, GoOn(t, n, ok),
             n \in Nat,
             UNCHANGED <<mutex, calls, keepers>>, timeout' \in {timeout, "AT"},
             lates' \in 0..MAX_LATE
      PROVE  IInv'
  <2>1. PICK o \in BOOLEAN :
          call' = [call EXCEPT ![t] = [at |-> call[t].at, method |-> call[t].method,
                                       part |-> call[t].part, step |-> call[t].step + 1 + n,
                                       ok |-> o]]
    BY <1>1, <1>2, GoesOn
  <2>2. call[t].step + 1 + n \in Nat \ {0}
    BY <1>1, <1>2
  <2> QED  BY <1>1, <1>2, <2>1, <2>2, InsideKeeps
<1>3. CASE Transmit(t)
  <2>1. GoOn(t, 0, TRUE) /\ UNCHANGED <<mutex, timeout, calls, keepers>>
    BY <1>3 DEF Transmit
  <2>2. lates' \in 0..MAX_LATE
    BY <1>1, <1>3, BoundAssumption DEF Transmit
  <2> QED  BY <1>2, <2>1, <2>2
<1>4. CASE Receive(t)
  <2> DEFINE n == IF stream[Min(Matching(t))].kind \in Step(t).stop THEN END ELSE Step(t).hit
  <2>1. GoOn(t, n, TRUE) /\ UNCHANGED <<mutex, timeout, calls, keepers, lates>>
    BY <1>4 DEF Receive, bounds
  <2>2. n \in Nat
    BY <1>1, <1>4, StepIsSound DEF Receive, StepOf, END
  <2> HIDE DEF n
  <2> QED  BY <1>1, <1>2, <2>1, <2>2
<1>5. CASE SetBack(t)
  <2>1. GoOn(t, Step(t).hit, TRUE) /\ UNCHANGED <<mutex, calls, keepers, lates>> /\ timeout' = "AT"
    BY <1>5 DEF SetBack, bounds, history
  <2>2. Step(t).hit \in Nat
    BY <1>1, <1>5, StepIsSound DEF SetBack, StepOf
  <2> QED  BY <1>1, <1>2, <2>1, <2>2
<1>6. CASE TimeOut(t) /\ ~Step(t).keeps
  <2>1. /\ GoOn(t, Step(t).miss, ~Step(t).fails)
        /\ UNCHANGED <<mutex, timeout, calls, keepers, lates>>
    BY <1>6 DEF TimeOut, bounds
  <2>2. Step(t).miss \in Nat
    BY <1>1, <1>6, StepIsSound DEF TimeOut, StepOf
  <2>3. (~Step(t).fails) \in BOOLEAN
    OBVIOUS
  <2> DEFINE ok == ~Step(t).fails
  <2> HIDE DEF ok
  <2>4. GoOn(t, Step(t).miss, ok) /\ ok \in BOOLEAN
    BY <2>1, <2>3 DEF ok
  <2> QED  BY <1>1, <1>2, <2>1, <2>2, <2>4
<1> QED  BY <1>3, <1>4, <1>5, <1>6

\* A call begins.
LEMMA CallKeeps ==
  ASSUME IInv, NEW t \in Threads, NEW m \in Used, Call(t, m)
  PROVE  IInv'
<1>1. /\ RecordsOK /\ call[t].at = "idle" /\ calls < MAX_CALLS /\ calls' = calls + 1
      /\ m \in DOMAIN Table /\ UNCHANGED <<mutex, timeout, keepers, lates>>
  BY UsedAssumption DEF IInv, Call, history
<1>2. call' = [call EXCEPT ![t] = [at |-> "lock", method |-> m, part |-> 1, step |-> 1,
                                   ok |-> TRUE]]
  BY DEF Call, About
<1>3. /\ call'[t].at = "lock" /\ call'[t].method = m
      /\ call'[t].part = 1 /\ call'[t].step = 1 /\ call'[t].ok = TRUE
      /\ \A u \in Threads \ {t} : call'[u] = call[u]
      /\ call' = [u \in Threads |-> [at |-> call'[u].at, method |-> call'[u].method,
                                     part |-> call'[u].part, step |-> call'[u].step,
                                     ok |-> call'[u].ok]]
  BY <1>1, <1>2, OneMoves
<1>4. RecordsOK'
  BY <1>1, <1>3 DEF RecordsOK
<1>5. PlacesOK'
  <2>1. 1 \in DOMAIN Table[m]
    BY <1>1, TableIsTidy DEF TableTidy, Tidy, PublishTidy, ConnectTidy, RevTidy
  <2>2. ASSUME NEW u \in Threads
        PROVE  /\ call'[u].at \in {"idle", "lock", "in"} /\ call'[u].ok \in BOOLEAN
               /\ call'[u].at # "idle" =>
                    /\ call'[u].method \in DOMAIN Table
                    /\ call'[u].part \in DOMAIN Table[call'[u].method]
                    /\ call'[u].step \in Nat \ {0}
               /\ call'[u].at = "in" => mutex'.owner = u
    <3>1. CASE u = t
      <4>1. /\ call'[u].at = "lock" /\ call'[u].ok = TRUE /\ call'[u].method = m
            /\ call'[u].part = 1 /\ call'[u].step = 1
        BY <1>3, <3>1
      <4>2. call'[u].part \in DOMAIN Table[call'[u].method] /\ call'[u].method \in DOMAIN Table
        BY <1>1, <2>1, <4>1
      <4>3. 1 \in Nat \ {0} /\ TRUE \in BOOLEAN /\ "lock" \in {"idle", "lock", "in"}
            /\ "lock" # "in"
        OBVIOUS
      <4> QED  BY <4>1, <4>2, <4>3, Zenon
    <3>2. CASE u # t
      BY <1>1, <1>3, <3>2 DEF IInv, PlacesOK
    <3> QED  BY <3>1, <3>2
  <2> QED  BY <2>2 DEF PlacesOK
<1>6. LocksCounted'
  <2>1. Waiting' = Waiting \cup {t} /\ t \notin Waiting
    BY <1>1, <1>3 DEF Waiting
  <2>2. /\ IsFiniteSet(Waiting') /\ Cardinality(Waiting') = Cardinality(Waiting) + 1
        /\ Cardinality(Waiting) \in Nat
    BY <2>1, FS_AddElement, FS_CardinalityType DEF IInv, LocksCounted
  <2> QED  BY <1>1, <2>2, BoundAssumption DEF IInv, LocksCounted
<1>7. MutexKept' <=> MutexKept
  BY <1>1, <1>3 DEF IInv, LocksCounted, MutexKept
<1>8. KeptByThose'
  BY <1>1, <1>7 DEF IInv, KeptByThose
<1>9. OwnHasReason'
  BY <1>1, <1>3, <1>7 DEF IInv, OwnHasReason, Activating, Part
<1> QED  BY <1>1, <1>4, <1>5, <1>6, <1>8, <1>9 DEF IInv

\* The mutex is locked, once more if the thread has kept it, and with it the part
\* sets its time-out: it is one that resets it, or the first part of connect.
LEMMA LockKeeps ==
  ASSUME IInv, NEW t \in Threads, Lock(t)
  PROVE  IInv'
<1>1. /\ RecordsOK /\ call[t].at = "lock" /\ mutex.owner \in {NoThread, t}
      /\ mutex' = [owner |-> t, count |-> mutex.count + 1]
      /\ timeout' = IF Part(t).own THEN "own" ELSE timeout
      /\ UNCHANGED <<keepers, calls, lates>> /\ t # NoThread
      /\ mutex.count \in Nat
  BY ThreadAssumption DEF IInv, Lock, LocksCounted, history, bounds
<1>2. call' = [call EXCEPT ![t] = [at |-> "in", method |-> call[t].method,
                                   part |-> call[t].part, step |-> call[t].step,
                                   ok |-> call[t].ok]]
  <2>1. DOMAIN call = Threads /\ call' = [call EXCEPT ![t] = [call[t] EXCEPT !.at = "in"]]
    BY DEF IInv, RecordsOK, Lock
  <2>2. [call[t] EXCEPT !.at = "in"] = [at |-> "in", method |-> call[t].method,
                                        part |-> call[t].part, step |-> call[t].step,
                                        ok |-> call[t].ok]
    BY <1>1 DEF RecordsOK
  <2> QED  BY <2>1, <2>2
<1>3. /\ call'[t].at = "in" /\ call'[t].method = call[t].method
      /\ call'[t].part = call[t].part /\ call'[t].step = call[t].step
      /\ call'[t].ok = call[t].ok
      /\ \A u \in Threads \ {t} : call'[u] = call[u]
      /\ call' = [u \in Threads |-> [at |-> call'[u].at, method |-> call'[u].method,
                                     part |-> call'[u].part, step |-> call'[u].step,
                                     ok |-> call'[u].ok]]
  <2>1. RecordsOK
    BY <1>1
  <2> QED  BY <1>2, <2>1, OneMoves
<1>4. mutex'.owner = t /\ mutex'.count = mutex.count + 1
  BY <1>1
<1>5. RecordsOK'
  BY <1>1, <1>3, <1>4 DEF RecordsOK
<1>6. PlacesOK'
  BY <1>1, <1>3, <1>4, ThreadAssumption DEF IInv, PlacesOK
<1>7. LocksCounted'
  <2>1. Waiting' = Waiting \ {t} /\ t \in Waiting
    BY <1>1, <1>3 DEF Waiting
  <2>2. /\ IsFiniteSet(Waiting') /\ Cardinality(Waiting') = Cardinality(Waiting) - 1
        /\ Cardinality(Waiting) \in Nat
    BY <2>1, FS_RemoveElement, FS_CardinalityType DEF IInv, LocksCounted
  <2> QED  BY <1>1, <1>4, <2>2 DEF IInv, LocksCounted
<1>8. MutexKept' => MutexKept
  BY <1>1, <1>3, <1>4 DEF IInv, LocksCounted, MutexKept
<1>9. KeptByThose'
  BY <1>1, <1>8 DEF IInv, KeptByThose
<1>10. OwnHasReason'
  <2> SUFFICES ASSUME timeout' = "own", ~MutexKept', ~ \E u \in Threads : Activating(u)'
               PROVE  /\ mutex'.owner = t /\ call'[t].at = "in"
                      /\ Part(t)'.back = TRUE \/ (call'[t].method = "connect" /\ call'[t].part = 1)
    BY DEF OwnHasReason
  <2>1. mutex.owner = NoThread
    BY <1>1, <1>3, <1>4 DEF IInv, LocksCounted, MutexKept
  <2>2. Part(t)' = Part(t)
    BY <1>3 DEF Part
  <2>3. call[t].method \in DOMAIN Table /\ call[t].part \in DOMAIN Table[call[t].method]
    BY <1>1 DEF IInv, PlacesOK
  <2>4. CASE Part(t).own
    BY <1>3, <1>4, <2>2, <2>3, <2>4, TableIsTidy
       DEF TableTidy, Tidy, PublishTidy, ConnectTidy, RevTidy, PartTidy, Part
  <2>5. CASE ~Part(t).own
    <3>1. timeout = "own" /\ ~MutexKept
      BY <1>1, <2>1, <2>5 DEF MutexKept
    <3>2. PICK u \in Threads : Activating(u)
      BY <2>1, <3>1, ThreadAssumption DEF IInv, OwnHasReason
    <3>3. u = t
      BY <1>3, <3>2 DEF Activating
    <3>4. Part(t).back = TRUE
      BY <2>3, <3>2, <3>3, TableIsTidy DEF Activating, TableTidy, ConnectTidy, Part
    <3> QED  BY <1>3, <1>4, <2>2, <3>4
  <2> QED  BY <2>4, <2>5
<1>11. timeout' \in {"AT", "own"}
  BY <1>1 DEF IInv
<1> QED  BY <1>5, <1>6, <1>7, <1>9, <1>10, <1>11 DEF IInv

\* A method returns with the mutex: one of the two that may.
LEMMA KeepReturns ==
  ASSUME IInv, NEW t \in Threads, TimeOut(t), Step(t).keeps
  PROVE  IInv'
<1>1. /\ RecordsOK /\ PlacesOK /\ call[t].at = "in" /\ mutex.owner = t /\ t # NoThread
      /\ InStep(t, "recv") /\ UNCHANGED <<mutex, timeout, calls, lates>>
      /\ keepers' = keepers \cup {call[t].method} /\ keepers \subseteq Keeping
  BY ThreadAssumption DEF IInv, PlacesOK, TimeOut, InStep, bounds, KeptByThose
<1>2. call[t].method \in Keeping
  BY <1>1, StepIsSound DEF StepOf
<1>3. call' = [call EXCEPT ![t] = [at |-> "idle", method |-> "", part |-> 1, step |-> 1,
                                   ok |-> TRUE]]
  BY DEF TimeOut, Idle
<1>4. /\ call'[t].at = "idle" /\ call'[t].ok = TRUE
      /\ \A u \in Threads \ {t} : call'[u] = call[u]
      /\ call' = [u \in Threads |-> [at |-> call'[u].at, method |-> call'[u].method,
                                     part |-> call'[u].part, step |-> call'[u].step,
                                     ok |-> call'[u].ok]]
  <2>1. RecordsOK
    BY <1>1
  <2> QED  BY <1>3, <2>1, OneMoves
<1>5. RecordsOK'
  BY <1>1, <1>4 DEF RecordsOK
<1>6. PlacesOK'
  <2>1. ASSUME NEW u \in Threads
        PROVE  /\ call'[u].at \in {"idle", "lock", "in"} /\ call'[u].ok \in BOOLEAN
               /\ call'[u].at # "idle" =>
                    /\ call'[u].method \in DOMAIN Table
                    /\ call'[u].part \in DOMAIN Table[call'[u].method]
                    /\ call'[u].step \in Nat \ {0}
               /\ call'[u].at = "in" => mutex'.owner = u
    <3>1. CASE u = t
      <4>1. "idle" # "in" /\ TRUE \in BOOLEAN
        OBVIOUS
      <4> QED  BY <1>4, <3>1, <4>1, Zenon
    <3>2. CASE u # t
      <4>1. call'[u] = call[u] /\ mutex' = mutex /\ PlacesOK
        BY <1>1, <1>4, <3>2
      <4> QED  BY <4>1 DEF PlacesOK
    <3> QED  BY <3>1, <3>2
  <2> QED  BY <2>1 DEF PlacesOK
<1>7. LocksCounted'
  <2>1. Waiting' = Waiting
    BY <1>1, <1>4 DEF Waiting
  <2> QED  BY <1>1, <2>1 DEF IInv, LocksCounted
<1>8. MutexKept'
  BY <1>1, <1>4 DEF MutexKept
<1>9. KeptByThose' /\ OwnHasReason'
  BY <1>1, <1>2, <1>8 DEF KeptByThose, OwnHasReason
<1> QED  BY <1>1, <1>5, <1>6, <1>7, <1>9 DEF IInv

\* The parts that may follow the one a thread is in.
LEMMA PartsFollow ==
  ASSUME NEW m \in DOMAIN Table, NEW p \in DOMAIN Table[m],
         NEW next \in Table[m][p].then \cup Table[m][p].else
  PROVE  /\ next # 0 => next \in DOMAIN Table[m]
         /\ m = "connect" /\ p = 1 => next = 2
<1>1. CASE m = "connect"
  BY <1>1, TableIsTidy DEF TableTidy, ConnectTidy
<1>2. CASE m = "mqtt_publish"
  BY <1>2, TableIsTidy DEF TableTidy, PublishTidy
<1>3. CASE m # "connect" /\ m # "mqtt_publish"
  BY <1>3, TableIsTidy DEF TableTidy, Tidy, RevTidy
<1> QED  BY <1>1, <1>2, <1>3

\* A part ends.  If the mutex is free with a time-out of its own, the part was the
\* first of connect, whose thread is about to activate the context; or another
\* thread was between these parts.
LEMMA UnlockKeeps ==
  ASSUME IInv, NEW t \in Threads, Unlock(t)
  PROVE  IInv'
<1>1. /\ RecordsOK /\ call[t].at = "in" /\ mutex.owner = t /\ t # NoThread
      /\ call[t].method \in DOMAIN Table /\ call[t].part \in DOMAIN Table[call[t].method]
      /\ mutex.count \in Nat \ {0} /\ UNCHANGED <<keepers, calls, lates>>
      /\ \A u \in Threads \ {t} : call[u].at # "in"
  BY ThreadAssumption DEF IInv, PlacesOK, LocksCounted, Unlock, bounds, history
<1>2. /\ mutex' = [owner |-> mutex'.owner, count |-> mutex'.count]
      /\ mutex'.count = mutex.count - 1
      /\ mutex'.owner = IF mutex.count = 1 THEN NoThread ELSE t
  BY <1>1 DEF Unlock, Unlocked
<1>3. PICK next \in Part(t).then \cup Part(t).else :
        call' = [call EXCEPT ![t] = IF next = 0 THEN Idle ELSE About(call[t].method, next)]
  BY DEF Unlock
<1>4. /\ next # 0 => next \in DOMAIN Table[call[t].method]
      /\ call[t].method = "connect" /\ call[t].part = 1 => next = 2
  BY <1>1, PartsFollow DEF Part
<1>5. \E a, m, p :
        /\ call' = [call EXCEPT ![t] = [at |-> a, method |-> m, part |-> p, step |-> 1, ok |-> TRUE]]
        /\ \/ a = "idle" /\ next = 0
           \/ a = "lock" /\ m = call[t].method /\ p = next /\ next # 0
  <2>1. CASE next = 0
    BY <1>3, <2>1, Zenon DEF Idle
  <2>2. CASE next # 0
    BY <1>3, <2>2, Zenon DEF About
  <2> QED  BY <2>1, <2>2
<1>6. /\ call'[t].ok = TRUE /\ call'[t].step = 1
      /\ \/ call'[t].at = "idle" /\ next = 0
         \/ /\ call'[t].at = "lock" /\ call'[t].method = call[t].method
            /\ call'[t].part = next /\ next # 0
      /\ \A u \in Threads \ {t} : call'[u] = call[u]
      /\ call' = [u \in Threads |-> [at |-> call'[u].at, method |-> call'[u].method,
                                     part |-> call'[u].part, step |-> call'[u].step,
                                     ok |-> call'[u].ok]]
  <2>1. PICK a, m, p :
        /\ call' = [call EXCEPT ![t] = [at |-> a, method |-> m, part |-> p, step |-> 1, ok |-> TRUE]]
        /\ \/ a = "idle" /\ next = 0
           \/ a = "lock" /\ m = call[t].method /\ p = next /\ next # 0
    BY <1>5
  <2>2. RecordsOK
    BY <1>1
  <2>3. /\ call'[t].at = a /\ call'[t].method = m /\ call'[t].part = p
        /\ call'[t].step = 1 /\ call'[t].ok = TRUE
        /\ \A u \in Threads \ {t} : call'[u] = call[u]
        /\ call' = [u \in Threads |-> [at |-> call'[u].at, method |-> call'[u].method,
                                       part |-> call'[u].part, step |-> call'[u].step,
                                       ok |-> call'[u].ok]]
    BY <2>1, <2>2, OneMoves
  <2> QED  BY <2>1, <2>3
<1>7. RecordsOK'
  BY <1>2, <1>6 DEF RecordsOK
<1>8. PlacesOK'
  <2>1. ASSUME NEW u \in Threads
        PROVE  /\ call'[u].at \in {"idle", "lock"} /\ call'[u].ok \in BOOLEAN
               /\ call'[u].at # "idle" =>
                    /\ call'[u].method \in DOMAIN Table
                    /\ call'[u].part \in DOMAIN Table[call'[u].method]
                    /\ call'[u].step \in Nat \ {0}
    <3>1. CASE u = t
      <4>1. 1 \in Nat \ {0} /\ TRUE \in BOOLEAN
        OBVIOUS
      <4> QED  BY <1>1, <1>4, <1>6, <3>1, <4>1, Zenon
    <3>2. CASE u # t
      <4>1. call'[u] = call[u] /\ call[u].at # "in"
        BY <1>1, <1>6, <3>2
      <4> QED  BY <4>1 DEF IInv, PlacesOK
    <3> QED  BY <3>1, <3>2
  <2> QED  BY <2>1 DEF PlacesOK
<1>9. LocksCounted'
  <2>1. t \notin Waiting /\ (Waiting' = Waiting \/ Waiting' = Waiting \cup {t})
    BY <1>1, <1>6 DEF Waiting
  <2>2. /\ IsFiniteSet(Waiting') /\ Cardinality(Waiting') <= Cardinality(Waiting) + 1
        /\ Cardinality(Waiting) \in Nat /\ Cardinality(Waiting') \in Nat
    <3>1. IsFiniteSet(Waiting) /\ Cardinality(Waiting) \in Nat
      BY FS_CardinalityType DEF IInv, LocksCounted
    <3>2. /\ IsFiniteSet(Waiting \cup {t})
          /\ Cardinality(Waiting \cup {t}) = Cardinality(Waiting) + 1
      BY <2>1, <3>1, FS_AddElement
    <3>3. CASE Waiting' = Waiting
      BY <3>1, <3>3
    <3>4. CASE Waiting' = Waiting \cup {t}
      BY <3>1, <3>2, <3>4
    <3> QED  BY <2>1, <3>3, <3>4
  <2> QED  BY <1>1, <1>2, <2>2 DEF IInv, LocksCounted
<1>10. MutexKept' <=> mutex.count # 1
  BY <1>1, <1>2, <1>6 DEF MutexKept
<1>11. KeptByThose'
  BY <1>1, <1>10 DEF IInv, KeptByThose, MutexKept
<1>12. timeout' \in {"AT", "own"}
  BY DEF IInv, Unlock
<1>13. OwnHasReason'
  <2> SUFFICES ASSUME timeout' = "own", mutex.count = 1
               PROVE  \E u \in Threads : Activating(u)'
    BY <1>10 DEF OwnHasReason
  <2>1. timeout = "own" /\ Part(t).back # TRUE
    BY DEF Unlock
  <2>2. ~MutexKept
    BY <1>1 DEF MutexKept
  <2>3. \/ \E u \in Threads : Activating(u)
        \/ call[t].method = "connect" /\ call[t].part = 1
    BY <1>1, <2>1, <2>2 DEF IInv, OwnHasReason
  <2>4. CASE \E u \in Threads : Activating(u)
    BY <1>1, <1>6, <2>4 DEF Activating
  <2>5. CASE call[t].method = "connect" /\ call[t].part = 1
    BY <1>4, <1>6, <2>5 DEF Activating
  <2> QED  BY <2>3, <2>4, <2>5
<1> QED  BY <1>7, <1>8, <1>9, <1>11, <1>12, <1>13 DEF IInv

\* Late answers arrive.
LEMMA ArriveKeeps == IInv /\ (Arrive \/ UNCHANGED vars) => IInv'
<1> SUFFICES ASSUME IInv, UNCHANGED <<mutex, timeout, call, calls, lates, keepers>>
             PROVE  IInv'
  BY DEF Arrive, vars, bounds, history
<1>1. RecordsOK' /\ PlacesOK' /\ timeout' \in {"AT", "own"}
  BY DEF IInv, RecordsOK, PlacesOK
<1>2. Waiting' = Waiting
  BY DEF Waiting
<1>3. LocksCounted' /\ KeptByThose'
  BY <1>2 DEF IInv, LocksCounted, KeptByThose, MutexKept
<1>4. OwnHasReason'
  BY DEF IInv, OwnHasReason, MutexKept, Activating, Part
<1> QED  BY <1>1, <1>3, <1>4 DEF IInv

LEMMA NextKeeps == IInv /\ [Next]_vars => IInv'
<1> SUFFICES ASSUME IInv, [Next]_vars  PROVE IInv'
  OBVIOUS
<1>1. CASE \E t \in Threads : \E m \in Used : Call(t, m)
  BY <1>1, CallKeeps
<1>2. CASE \E t \in Threads : Lock(t)
  BY <1>2, LockKeeps
<1>3. CASE \E t \in Threads : Transmit(t) \/ Receive(t) \/ SetBack(t)
  BY <1>3, PartStepKeeps
<1>4. CASE \E t \in Threads : TimeOut(t)
  BY <1>4, PartStepKeeps, KeepReturns
<1>5. CASE \E t \in Threads : Unlock(t)
  BY <1>5, UnlockKeeps
<1>6. CASE Arrive \/ UNCHANGED vars
  BY <1>6, ArriveKeeps
<1> QED  BY <1>1, <1>2, <1>3, <1>4, <1>5, <1>6 DEF Next

-----------------------------------------------------------------------------
(* Whose reply is read.                                                    *)

Line == [kind : Kinds, by : DOMAIN Table, old : BOOLEAN]

\* A method that reads its answer to its end, and whose answers were in time.
Trusts(late, m) == m \notin late \cup Untidy

\* If a line was left by one of these, no method reads it.
Harmless(l, late)        == Trusts(late, l.by) => l.kind \in Strays
AllHarmless(lines, late) == \A i \in 1..Len(lines) : Harmless(lines[i], late)

\* The lines end with what is unread of the answer to the last command: ahead of it are
\* only lines that were there before.
Unread(q, lines, late) ==
    /\ q \in Seq(Kinds) /\ Len(q) <= Len(lines)
    /\ \A i \in 1..(Len(lines) - Len(q)) :
          Harmless(lines[i], late) /\ (q # <<>> => lines[i].old = TRUE)
    /\ \A j \in 1..Len(q) : /\ lines[(Len(lines) - Len(q)) + j].kind = q[j]
                            /\ lines[(Len(lines) - Len(q)) + j].old = FALSE

\* A line that no method of the table reads but getRev, which reads any.
Stray(l, late) == Trusts(late, l.by) /\ l.kind \in Strays

\* getRev drops them with the lines ahead of the OK to its first command.
Dropped(i, lines, late) ==
    /\ i = 2 => \A k \in 1..Len(lines) : Stray(lines[k], late) =>
                   \A n \in 1..(k - 1) : lines[n].old = TRUE
    /\ i >= 3 => \A k \in 1..Len(lines) : ~Stray(lines[k], late)

Reads(left, i, late) ==
    \E q : MayLeave(left, i, q) /\ Unread(q, stream, late) /\ (q # <<>> => coming = <<>>)

Reader(t) == call[t].at = "in" /\ Trusts(tardy, call[t].method)

\* What is in the stream, up to the first line that is taken for another's.
StreamOK ==
    /\ stream \in Seq(Line) /\ coming \in Seq(Line)
    /\ \A i \in 1..Len(coming) : coming[i].by \in tardy
    /\ \A t \in Threads : Reader(t) =>
         \E left : Describes(left, Part(t).steps) /\ Reads(left, call[t].step, tardy)
    /\ (\A t \in Threads : ~Reader(t)) => AllHarmless(stream, tardy)
    /\ \A t \in Threads : call[t].at = "in" /\ call[t].method = "getRev" =>
         Dropped(call[t].step, stream, tardy)

\* A part begins with its first step.
FirstSteps == \A t \in Threads : call[t].at = "lock" => call[t].step = 1

MixInv ==
    /\ \E S : mixups \in Seq(S)
    /\ MixupHasCause
    /\ FirstSteps
    /\ mixups = <<>> => StreamOK

LEMMA LessIsWellFounded ==
  \E R : IsWellFoundedOn(R, Nat) /\ \A x, y \in Nat : <<y, x>> \in R <=> y < x
<1>1. \A x, y \in Nat : <<y, x>> \in OpToRel(<, Nat) <=> y < x
  BY DEF OpToRel
<1>2. IsWellFoundedOn(OpToRel(<, Nat), Nat)
  BY NatLessThanWellFounded, Zenon
<1> QED  BY <1>1, <1>2, Zenon

\* The first line that matches.
LEMMA LeastIs ==
  ASSUME NEW S, S \subseteq Nat, S # {}
  PROVE  Min(S) \in S /\ \A y \in S : Min(S) <= y
<1>1. PICK R : IsWellFoundedOn(R, Nat) /\ \A x, y \in Nat : <<y, x>> \in R <=> y < x
  BY LessIsWellFounded, Zenon
<1>2. PICK x \in S : \A y \in S : ~(<<y, x>> \in R)
  BY <1>1, WFMin, Zenon
<1>3. \A y \in Nat : <<y, x>> \in R <=> y < x
  BY <1>1, Zenon
<1>4. \A y \in S : y \in Nat /\ ~(y < x)
  BY <1>2, <1>3, Zenon
<1>5. x \in Nat
  OBVIOUS
<1>6. \A y \in S : x <= y
  BY <1>4, <1>5
<1> QED  BY <1>6, Zenon DEF Min

\* Lines that age keep what they are.
LEMMA AgedAre ==
  ASSUME NEW lines \in Seq(Line)
  PROVE  /\ Aged(lines) \in Seq(Line) /\ Len(Aged(lines)) = Len(lines)
         /\ \A i \in 1..Len(lines) :
              /\ Aged(lines)[i].kind = lines[i].kind /\ Aged(lines)[i].by = lines[i].by
              /\ Aged(lines)[i].old = TRUE
<1>1. ASSUME NEW l \in Line
      PROVE  /\ [l EXCEPT !.old = TRUE] \in Line
             /\ [l EXCEPT !.old = TRUE].kind = l.kind /\ [l EXCEPT !.old = TRUE].by = l.by
             /\ [l EXCEPT !.old = TRUE].old = TRUE
  BY DEF Line
<1> DEFINE aged(l) == [l EXCEPT !.old = TRUE]
<1>2. Aged(lines) = [i \in 1..Len(lines) |-> aged(lines[i])]
  BY DEF Aged
<1>3. \A l \in Line : /\ aged(l) \in Line /\ aged(l).kind = l.kind /\ aged(l).by = l.by
                      /\ aged(l).old = TRUE
  BY <1>1
<1> HIDE DEF aged
<1> QED  BY <1>2, <1>3

\* The lines of an answer.
NewLine(l, k, m) == l.kind = k /\ l.by = m /\ l.old = FALSE

LEMMA LinesAre ==
  ASSUME NEW answer \in Seq(Kinds), NEW m \in DOMAIN Table
  PROVE  /\ Lines(answer, m) \in Seq(Line) /\ Len(Lines(answer, m)) = Len(answer)
         /\ \A i \in 1..Len(answer) : NewLine(Lines(answer, m)[i], answer[i], m)
<1>1. ASSUME NEW k \in Kinds
      PROVE  /\ [kind |-> k, by |-> m, old |-> FALSE] \in Line
             /\ NewLine([kind |-> k, by |-> m, old |-> FALSE], k, m)
  BY DEF Line, NewLine
<1> DEFINE new(k) == [kind |-> k, by |-> m, old |-> FALSE]
<1>2. Lines(answer, m) = [i \in 1..Len(answer) |-> new(answer[i])]
  BY DEF Lines
<1>3. \A k \in Kinds : new(k) \in Line /\ NewLine(new(k), k, m)
  BY <1>1
<1> HIDE DEF new
<1> QED  BY <1>2, <1>3

LEMMA JoinIs ==
  ASSUME NEW a \in Seq(Line), NEW b \in Seq(Line)
  PROVE  /\ a \o b \in Seq(Line) /\ Len(a \o b) = Len(a) + Len(b)
         /\ Len(a) \in Nat /\ Len(b) \in Nat
         /\ \A k \in 1..Len(a) : (a \o b)[k] = a[k]
         /\ \A k \in 1..Len(b) : (a \o b)[Len(a) + k] = b[k]
  OBVIOUS

\* What comes when a command is sent: it is unread, and what was there ages.
LEMMA SentIsUnread ==
  ASSUME NEW lines \in Seq(Line), NEW late, NEW later, late \subseteq later,
         AllHarmless(lines, late), NEW answer \in Seq(Kinds), NEW m \in DOMAIN Table
  PROVE  /\ AllHarmless(Aged(lines), later)
         /\ Unread(answer, Aged(lines) \o Lines(answer, m), later)
         /\ ~Trusts(later, m) => AllHarmless(Aged(lines) \o Lines(answer, m), later)
<1> DEFINE aged == Aged(lines)
           new  == Lines(answer, m)
           both == aged \o new
<1>1. /\ aged \in Seq(Line) /\ Len(aged) = Len(lines)
      /\ \A i \in 1..Len(lines) : /\ aged[i].kind = lines[i].kind /\ aged[i].by = lines[i].by
                                  /\ aged[i].old = TRUE
  BY AgedAre
<1>2. /\ new \in Seq(Line) /\ Len(new) = Len(answer)
      /\ \A i \in 1..Len(answer) : NewLine(new[i], answer[i], m)
  BY LinesAre
<1> HIDE DEF aged, new
<1>3. \A i \in 1..Len(lines) : Harmless(aged[i], later)
  BY <1>1 DEF AllHarmless, Harmless, Trusts
<1>4. /\ both \in Seq(Line) /\ Len(both) = Len(lines) + Len(answer)
      /\ \A i \in 1..Len(lines) : both[i] = aged[i]
      /\ \A j \in 1..Len(answer) : both[Len(lines) + j] = new[j]
  <2>1. /\ aged \in Seq(Line) /\ Len(aged) = Len(lines)
        /\ new \in Seq(Line) /\ Len(new) = Len(answer)
    BY <1>1, <1>2
  <2> QED  BY <2>1
<1>5. Len(lines) \in Nat /\ Len(answer) \in Nat
  OBVIOUS
<1> HIDE DEF both
<1>6. Len(both) - Len(answer) = Len(lines) /\ Len(answer) <= Len(both)
  BY <1>4, <1>5
<1>7. Unread(answer, both, later)
  <2>1. \A i \in 1..(Len(both) - Len(answer)) : Harmless(both[i], later) /\ both[i].old = TRUE
    BY <1>1, <1>3, <1>4, <1>6
  <2>2. \A j \in 1..Len(answer) : /\ both[(Len(both) - Len(answer)) + j].kind = answer[j]
                                  /\ both[(Len(both) - Len(answer)) + j].old = FALSE
    BY <1>2, <1>4, <1>6 DEF NewLine
  <2> QED  BY <1>6, <2>1, <2>2 DEF Unread
<1>8. ASSUME ~Trusts(later, m)  PROVE AllHarmless(both, later)
  <2>1. ASSUME NEW i \in 1..Len(both)  PROVE Harmless(both[i], later)
    <3>1. CASE i <= Len(lines)
      BY <1>3, <1>4, <1>5, <3>1
    <3>2. CASE ~(i <= Len(lines))
      <4>1. i - Len(lines) \in 1..Len(answer) /\ i = Len(lines) + (i - Len(lines))
        BY <1>4, <1>5, <3>2
      <4> DEFINE j == i - Len(lines)
      <4> HIDE DEF j
      <4>2. j \in 1..Len(answer) /\ i = Len(lines) + j
        BY <4>1 DEF j
      <4>3. both[i].by = m
        BY <1>2, <1>4, <4>2 DEF NewLine
      <4> QED  BY <1>8, <4>3 DEF Harmless
    <3> QED  BY <3>1, <3>2
  <2> QED  BY <2>1 DEF AllHarmless
<1>9. AllHarmless(aged, later)
  BY <1>1, <1>3 DEF AllHarmless
<1> QED  BY <1>7, <1>8, <1>9 DEF aged, new, both

\* If nothing that is read is unread, the lines do no harm.
LEMMA UnreadStrays ==
  ASSUME NEW lines \in Seq(Line), NEW late, NEW q, Unread(q, lines, late),
         \A j \in 1..Len(q) : q[j] \in Strays
  PROVE  AllHarmless(lines, late)
<1> DEFINE n == Len(lines) - Len(q)
<1>1. n \in Nat /\ Len(lines) = n + Len(q) /\ Len(q) \in Nat
  BY DEF Unread
<1>2. /\ \A i \in 1..n : Harmless(lines[i], late)
      /\ \A j \in 1..Len(q) : lines[n + j].kind = q[j]
  BY DEF Unread
<1> HIDE DEF n
<1>3. ASSUME NEW i \in 1..Len(lines)  PROVE Harmless(lines[i], late)
  <2>1. CASE i <= n
    BY <1>1, <1>2, <2>1
  <2>2. CASE ~(i <= n)
    <3> DEFINE j == i - n
    <3>1. j \in 1..Len(q) /\ i = n + j
      BY <1>1, <2>2
    <3> HIDE DEF j
    <3>2. lines[i].kind = q[j] /\ q[j] \in Strays
      BY <1>2, <3>1
    <3> QED  BY <3>2 DEF Harmless
  <2> QED  BY <2>1, <2>2
<1> QED  BY <1>3 DEF AllHarmless

LEMMA UnreadNone ==
  ASSUME NEW lines \in Seq(Line), NEW late
  PROVE  /\ Unread(<<>>, lines, late) <=> AllHarmless(lines, late)
         /\ AllHarmless(<<>>, late) /\ <<>> \in Seq(Line)
         /\ Unread(<<>>, <<>>, late)
<1>1. /\ Len(lines) - Len(<<>>) = Len(lines) /\ Len(<<>>) <= Len(lines)
      /\ Len(<<>>) = 0 /\ 0 - 0 = 0 /\ <<>> \in Seq(Kinds) /\ 1..0 = {} /\ 0 <= 0
  OBVIOUS
<1>2. AllHarmless(<<>>, late)
  BY DEF AllHarmless
<1>3. Unread(<<>>, lines, late) <=> AllHarmless(lines, late)
  BY <1>1, Zenon DEF Unread, AllHarmless
<1>4. Unread(<<>>, <<>>, late)
  BY <1>1, Zenon DEF Unread
<1> QED  BY <1>2, <1>3, <1>4

\* The first line that is taken is one of what is unread, and what comes after it is
\* unread then; or it is ahead of that, when it is old unless nothing is unread.
LEMMA TakenIs ==
  ASSUME NEW lines \in Seq(Line), NEW late, NEW q, Unread(q, lines, late),
         NEW i \in 1..Len(lines), q # <<>>, lines[i].old = FALSE
  PROVE  \E j \in 1..Len(q) :
           /\ lines[i].kind = q[j] /\ i = (Len(lines) - Len(q)) + j
           /\ SubSeq(lines, i + 1, Len(lines)) \in Seq(Line)
           /\ Unread(SubSeq(q, j + 1, Len(q)), SubSeq(lines, i + 1, Len(lines)), late)
<1> DEFINE n == Len(lines) - Len(q)
<1>1. n \in Nat /\ Len(lines) = n + Len(q) /\ Len(q) \in Nat /\ q \in Seq(Kinds)
  BY DEF Unread
<1>2. /\ \A k \in 1..n : lines[k].old = TRUE
      /\ \A k \in 1..Len(q) : lines[n + k].kind = q[k] /\ lines[n + k].old = FALSE
  BY DEF Unread
<1> HIDE DEF n
<1>3. ~(i <= n)
  BY <1>1, <1>2
<1> DEFINE j == i - n
           after == SubSeq(lines, i + 1, Len(lines))
           rest  == SubSeq(q, j + 1, Len(q))
<1>4. j \in 1..Len(q) /\ i = n + j
  BY <1>1, <1>3
<1> HIDE DEF j
<1>5. /\ after \in Seq(Line) /\ Len(after) = Len(lines) - i
      /\ \A k \in 1..(Len(lines) - i) : after[k] = lines[i + k]
  <2>1. i + 1 \in 1..(Len(lines) + 1)
    OBVIOUS
  <2> QED  BY <2>1
<1>6. /\ rest \in Seq(Kinds) /\ Len(rest) = Len(q) - j
      /\ \A k \in 1..(Len(q) - j) : rest[k] = q[j + k]
  <2>1. j + 1 \in 1..(Len(q) + 1)
    BY <1>4
  <2> QED  BY <1>1, <1>4, <2>1
<1> HIDE DEF after, rest
<1>7. Len(after) = Len(rest)
  BY <1>1, <1>4, <1>5, <1>6
<1>8. \A k \in 1..Len(rest) : after[k].kind = rest[k] /\ after[k].old = FALSE
  <2> SUFFICES ASSUME NEW k \in 1..Len(rest)
               PROVE  after[k].kind = rest[k] /\ after[k].old = FALSE
    OBVIOUS
  <2>1. j + k \in 1..Len(q) /\ i + k = n + (j + k) /\ k \in 1..(Len(q) - j)
        /\ k \in 1..(Len(lines) - i)
    BY <1>1, <1>4, <1>5, <1>6, <1>7
  <2>2. after[k] = lines[n + (j + k)] /\ rest[k] = q[j + k]
    BY <1>5, <1>6, <2>1
  <2> QED  BY <1>2, <2>1, <2>2
<1>9. Unread(rest, after, late)
  <2>1. Len(after) - Len(rest) = 0 /\ Len(rest) <= Len(after)
        /\ Len(rest) \in Nat
    BY <1>5, <1>6, <1>7
  <2>2. \A k \in 1..Len(rest) : after[(Len(after) - Len(rest)) + k] = after[k]
    BY <2>1
  <2>3. 1..(Len(after) - Len(rest)) = {}
    BY <2>1
  <2> QED  BY <1>6, <1>8, <2>1, <2>2, <2>3 DEF Unread
<1>10. lines[i].kind = q[j] /\ i = (Len(lines) - Len(q)) + j
  BY <1>2, <1>4 DEF n
<1> QED  BY <1>4, <1>5, <1>9, <1>10 DEF after, rest

\* What comes after a line, or is added, does no harm.
LEMMA PartsHarmless ==
  ASSUME NEW lines \in Seq(Line), NEW late, AllHarmless(lines, late)
  PROVE  /\ \A i \in 1..Len(lines) : AllHarmless(SubSeq(lines, i + 1, Len(lines)), late)
         /\ \A more \in Seq(Line) : (\A i \in 1..Len(more) : more[i].by \in late) =>
              AllHarmless(lines \o more, late)
<1>1. ASSUME NEW i \in 1..Len(lines)
      PROVE  AllHarmless(SubSeq(lines, i + 1, Len(lines)), late)
  <2> DEFINE after == SubSeq(lines, i + 1, Len(lines))
  <2>1. /\ Len(after) = Len(lines) - i
        /\ \A k \in 1..(Len(lines) - i) : after[k] = lines[i + k]
    <3>1. i + 1 \in 1..(Len(lines) + 1)
      OBVIOUS
    <3> QED  BY <3>1
  <2> HIDE DEF after
  <2>2. \A k \in 1..Len(after) : after[k] = lines[i + k] /\ i + k \in 1..Len(lines)
    BY <2>1
  <2>3. AllHarmless(after, late)
    BY <2>2 DEF AllHarmless
  <2> QED  BY <2>3 DEF after
<1>2. ASSUME NEW more \in Seq(Line), \A i \in 1..Len(more) : more[i].by \in late
      PROVE  AllHarmless(lines \o more, late)
  <2> DEFINE both == lines \o more
  <2>1. /\ Len(both) = Len(lines) + Len(more) /\ Len(lines) \in Nat /\ Len(more) \in Nat
        /\ \A i \in 1..Len(lines) : both[i] = lines[i]
        /\ \A j \in 1..Len(more) : both[Len(lines) + j] = more[j]
    OBVIOUS
  <2> HIDE DEF both
  <2>2. ASSUME NEW i \in 1..Len(both)  PROVE Harmless(both[i], late)
    <3>1. CASE i <= Len(lines)
      BY <2>1, <3>1 DEF AllHarmless
    <3>2. CASE ~(i <= Len(lines))
      <4> DEFINE j == i - Len(lines)
      <4>1. j \in 1..Len(more) /\ i = Len(lines) + j
        BY <2>1, <3>2
      <4> HIDE DEF j
      <4>2. both[i].by \in late
        BY <1>2, <2>1, <4>1
      <4> QED  BY <4>2 DEF Harmless, Trusts
    <3> QED  BY <3>1, <3>2
  <2>3. AllHarmless(both, late)
    BY <2>2 DEF AllHarmless
  <2> QED  BY <2>3 DEF both
<1> QED  BY <1>1, <1>2

\* Nor does getRev meet a line that it could take for its own when it sends a command,
\* when lines arrive that were late, or when it has read a line.
LEMMA DroppedSent ==
  ASSUME NEW lines \in Seq(Line), NEW late, NEW later, late \subseteq later,
         NEW i \in Nat \ {0}, i # 2, Dropped(i, lines, late),
         NEW answer \in Seq(Words), NEW m \in DOMAIN Table
  PROVE  /\ Dropped(i + 1, Aged(lines), later)
         /\ Dropped(i + 1, Aged(lines) \o Lines(answer, m), later)
<1> DEFINE aged == Aged(lines)
           new  == Lines(answer, m)
           both == aged \o new
<1>1. /\ aged \in Seq(Line) /\ Len(aged) = Len(lines)
      /\ \A k \in 1..Len(lines) : /\ aged[k].kind = lines[k].kind /\ aged[k].by = lines[k].by
                                  /\ aged[k].old = TRUE
  BY AgedAre
<1>2. answer \in Seq(Kinds)
  <2>1. Words \subseteq Kinds
    BY DEF Kinds
  <2> QED  BY <2>1
<1>3. /\ new \in Seq(Line) /\ Len(new) = Len(answer)
      /\ \A k \in 1..Len(answer) : NewLine(new[k], answer[k], m)
  BY <1>2, LinesAre
<1> HIDE DEF aged, new
<1>4. /\ Len(both) = Len(lines) + Len(answer)
      /\ \A k \in 1..Len(lines) : both[k] = aged[k]
      /\ \A k \in 1..Len(answer) : both[Len(lines) + k] = new[k]
  <2>1. /\ aged \in Seq(Line) /\ Len(aged) = Len(lines)
        /\ new \in Seq(Line) /\ Len(new) = Len(answer)
    BY <1>1, <1>3
  <2>2. /\ Len(both) = Len(aged) + Len(new)
        /\ \A k \in 1..Len(aged) : both[k] = aged[k]
        /\ \A k \in 1..Len(new) : both[Len(aged) + k] = new[k]
    BY <2>1, JoinIs
  <2> HIDE DEF both
  <2> QED  BY <2>1, <2>2
<1>5. Len(lines) \in Nat /\ Len(answer) \in Nat
  OBVIOUS
<1> HIDE DEF both
<1>6. \A k \in 1..Len(answer) : both[Len(lines) + k].kind \notin Strays
  <2>1. \A k \in 1..Len(answer) : both[Len(lines) + k].kind = answer[k]
    BY <1>3, <1>4 DEF NewLine
  <2>2. \A k \in 1..Len(answer) : answer[k] \in Words
    OBVIOUS
  <2>3. Words \cap Strays = {}
    BY AnswersAre
  <2> QED  BY <2>1, <2>2, <2>3
\* The strays are among the lines that were there.
<1>7. ASSUME NEW k \in 1..Len(both), both[k].kind \in Strays
      PROVE  k \in 1..Len(lines)
  <2> SUFFICES ASSUME ~(k <= Len(lines))  PROVE FALSE
    BY <1>5
  <2> DEFINE j == k - Len(lines)
  <2>1. j \in 1..Len(answer) /\ k = Len(lines) + j
    BY <1>4, <1>5
  <2> HIDE DEF j
  <2> QED  BY <1>6, <1>7, <2>1
<1>8. \A k \in 1..Len(lines) : Stray(aged[k], later) => Stray(lines[k], late)
  BY <1>1 DEF Stray, Trusts
<1>9. CASE i = 1
  <2>1. ~(i + 1 >= 3) /\ \A k \in 1..Len(lines) : \A n \in 1..(k - 1) : n \in 1..Len(lines)
    BY <1>5, <1>9
  <2>2. \A k \in 1..Len(aged) : \A n \in 1..(k - 1) : aged[n].old = TRUE
    BY <1>1, <2>1
  <2>3. \A k \in 1..Len(both) : both[k].kind \in Strays => \A n \in 1..(k - 1) : both[n].old = TRUE
    BY <1>1, <1>4, <1>7, <2>1
  <2> QED  BY <2>1, <2>2, <2>3 DEF Dropped, Stray, aged, both, new
<1>10. CASE i >= 3
  <2>1. /\ \A k \in 1..Len(lines) : ~Stray(lines[k], late)
        /\ ~(i + 1 = 2)
    BY <1>10 DEF Dropped
  <2>2. \A k \in 1..Len(aged) : ~Stray(aged[k], later)
    BY <1>1, <1>8, <2>1
  <2>3. \A k \in 1..Len(both) : ~Stray(both[k], later)
    <3> SUFFICES ASSUME NEW k \in 1..Len(both), Stray(both[k], later)  PROVE FALSE
      OBVIOUS
    <3>1. k \in 1..Len(lines)
      BY <1>7 DEF Stray
    <3> QED  BY <1>4, <1>8, <2>1, <3>1
  <2> QED  BY <2>1, <2>2, <2>3 DEF Dropped, aged, both, new
<1> QED  BY <1>9, <1>10

LEMMA DroppedMore ==
  ASSUME NEW lines \in Seq(Line), NEW late, NEW i, Dropped(i, lines, late),
         NEW more \in Seq(Line), \A k \in 1..Len(more) : more[k].by \in late
  PROVE  Dropped(i, lines \o more, late)
<1> DEFINE both == lines \o more
<1>1. /\ Len(both) = Len(lines) + Len(more) /\ Len(lines) \in Nat /\ Len(more) \in Nat
      /\ \A k \in 1..Len(lines) : both[k] = lines[k]
      /\ \A k \in 1..Len(more) : both[Len(lines) + k] = more[k]
  OBVIOUS
<1> HIDE DEF both
<1>2. ASSUME NEW k \in 1..Len(both), Stray(both[k], late)
      PROVE  k \in 1..Len(lines) /\ Stray(lines[k], late)
  <2>1. k <= Len(lines)
    <3> SUFFICES ASSUME ~(k <= Len(lines))  PROVE FALSE
      OBVIOUS
    <3> DEFINE j == k - Len(lines)
    <3>1. j \in 1..Len(more) /\ k = Len(lines) + j
      BY <1>1
    <3> HIDE DEF j
    <3>2. both[k].by \in late
      BY <1>1, <3>1
    <3> QED  BY <1>2, <3>2 DEF Stray, Trusts
  <2> QED  BY <1>1, <1>2, <2>1
<1>3. ASSUME i = 2, NEW k \in 1..Len(both), Stray(both[k], late), NEW n \in 1..(k - 1)
      PROVE  both[n].old = TRUE
  <2>1. k \in 1..Len(lines) /\ Stray(lines[k], late)
    BY <1>2, <1>3
  <2>2. lines[n].old = TRUE /\ n \in 1..Len(lines)
    BY <1>1, <1>3, <2>1 DEF Dropped
  <2> QED  BY <1>1, <2>2
<1>4. ASSUME i >= 3, NEW k \in 1..Len(both)  PROVE ~Stray(both[k], late)
  BY <1>2, <1>4 DEF Dropped
<1>5. Dropped(i, both, late)
  BY <1>3, <1>4 DEF Dropped
<1> QED  BY <1>5 DEF both

LEMMA DroppedRead ==
  ASSUME NEW lines \in Seq(Line), NEW late, NEW i \in Nat, i >= 2, Dropped(i, lines, late),
         NEW k \in 1..Len(lines), lines[k].old = FALSE, NEW n
  PROVE  Dropped(n, SubSeq(lines, k + 1, Len(lines)), late)
<1> DEFINE after == SubSeq(lines, k + 1, Len(lines))
<1>1. /\ Len(after) = Len(lines) - k
      /\ \A j \in 1..(Len(lines) - k) : after[j] = lines[k + j]
  <2>1. k + 1 \in 1..(Len(lines) + 1)
    OBVIOUS
  <2> QED  BY <2>1
<1> HIDE DEF after
<1>2. \A j \in 1..Len(after) : /\ after[j] = lines[k + j] /\ k + j \in 1..Len(lines)
                               /\ k \in 1..((k + j) - 1)
  BY <1>1
<1>3. ASSUME NEW j \in 1..Len(after)  PROVE ~Stray(after[j], late)
  <2>1. CASE i = 2
    BY <1>2, <2>1 DEF Dropped
  <2>2. CASE i >= 3
    BY <1>2, <2>2 DEF Dropped
  <2> QED  BY <2>1, <2>2
<1>4. Dropped(n, after, late)
  BY <1>3 DEF Dropped
<1> QED  BY <1>4 DEF after

LEMMA DroppedAll ==
  ASSUME NEW lines, NEW late, NEW i \in Nat, i >= 3, Dropped(i, lines, late), NEW n
  PROVE  Dropped(n, lines, late)
  BY DEF Dropped

LEMMA DroppedNone == \A i, late : Dropped(i, <<>>, late)
  BY DEF Dropped

\* Only the owner of the mutex is inside a part.
LEMMA OneInside ==
  ASSUME PlacesOK, NEW t \in Threads, call[t].at = "in"
  PROVE  \A u \in Threads \ {t} : call[u].at # "in"
  BY DEF PlacesOK

\* What a thread that is at a step of its part finds in the stream.
LEMMA ReaderFinds ==
  ASSUME PlacesOK, StreamOK, NEW t \in Threads, NEW op, InStep(t, op), Reader(t)
  PROVE  \E left, q : /\ Describes(left, Part(t).steps) /\ q \in Seq(Kinds)
                      /\ Follows(left, call[t].step, Step(t), q)
                      /\ Unread(q, stream, tardy) /\ (q # <<>> => coming = <<>>)
<1>1. PICK left : Describes(left, Part(t).steps) /\ Reads(left, call[t].step, tardy)
  BY DEF StreamOK
<1>2. PICK q : /\ MayLeave(left, call[t].step, q) /\ Unread(q, stream, tardy)
               /\ (q # <<>> => coming = <<>>)
  BY <1>1 DEF Reads
<1>3. call[t].step \in 1..Len(Part(t).steps) /\ Step(t) = Part(t).steps[call[t].step]
  BY StepIsSound
<1>4. DOMAIN left = 1..Len(Part(t).steps) /\ StepReads(left, call[t].step, Step(t))
  BY <1>1, <1>3 DEF Describes
<1>5. q \in left[call[t].step]
  BY <1>2, <1>3, <1>4 DEF MayLeave
<1>6. Follows(left, call[t].step, Step(t), q) /\ q \in Seq(Kinds)
  BY <1>4, <1>5 DEF StepReads
<1> QED  BY <1>1, <1>2, <1>6

\* What a thread that does not read its answers to the end finds.
LEMMA OtherFinds ==
  ASSUME PlacesOK, StreamOK, NEW t \in Threads, call[t].at = "in", ~Reader(t)
  PROVE  AllHarmless(stream, tardy)
<1>1. \A u \in Threads : ~Reader(u)
  BY OneInside DEF Reader
<1> QED  BY <1>1 DEF StreamOK

\* A thread goes on inside its part.
LEMMA StaysInside ==
  ASSUME RecordsOK, PlacesOK, NEW t \in Threads, call[t].at = "in", NEW s, NEW o,
         call' = [call EXCEPT ![t] = [at |-> call[t].at, method |-> call[t].method,
                                      part |-> call[t].part, step |-> s, ok |-> o]],
         stream' \in Seq(Line), coming' \in Seq(Line),
         \A i \in 1..Len(coming') : coming'[i].by \in tardy',
         Trusts(tardy', call[t].method) =>
             \E left, q : /\ Describes(left, Part(t).steps) /\ MayLeave(left, s, q)
                          /\ Unread(q, stream', tardy') /\ (q # <<>> => coming' = <<>>),
         ~Trusts(tardy', call[t].method) => AllHarmless(stream', tardy'),
         call[t].method = "getRev" => Dropped(s, stream', tardy')
  PROVE  StreamOK'
<1>1. /\ call'[t].at = "in" /\ call'[t].method = call[t].method
      /\ call'[t].part = call[t].part /\ call'[t].step = s
      /\ \A u \in Threads \ {t} : call'[u] = call[u]
  BY OneMoves
<1>2. \A u \in Threads \ {t} : call'[u].at # "in"
  BY <1>1, OneInside
<1>3. Part(t)' = Part(t)
  BY <1>1 DEF Part
<1>4. Reader(t)' <=> Trusts(tardy', call[t].method)
  BY <1>1 DEF Reader
<1>5. \A u \in Threads \ {t} : ~Reader(u)'
  BY <1>2 DEF Reader
<1>6. ASSUME NEW u \in Threads, Reader(u)'
      PROVE  \E left : Describes(left, Part(u).steps)' /\ Reads(left, call[u].step, tardy)'
  <2>1. u = t
    BY <1>5, <1>6
  <2>2. PICK left, q : /\ Describes(left, Part(t).steps) /\ MayLeave(left, s, q)
                       /\ Unread(q, stream', tardy') /\ (q # <<>> => coming' = <<>>)
    BY <1>4, <1>6, <2>1
  <2>3. Reads(left, s, tardy)'
    BY <2>2 DEF Reads
  <2>4. Part(u)' = Part(t) /\ call'[u].step = s
    BY <1>1, <1>3, <2>1
  <2>5. Describes(left, Part(u).steps)'
    BY <2>2, <2>4, Zenon
  <2>6. Reads(left, call[u].step, tardy)'
    BY <2>3, <2>4 DEF Reads
  <2> QED  BY <2>5, <2>6, Zenon
<1>7. (\A u \in Threads : ~Reader(u)') => AllHarmless(stream', tardy')
  BY <1>4
<1>8. ASSUME NEW u \in Threads, call'[u].at = "in", call'[u].method = "getRev"
      PROVE  Dropped(call'[u].step, stream', tardy')
  BY <1>1, <1>2, <1>8
<1> QED  BY <1>6, <1>7, <1>8, Zenon DEF StreamOK

\* After a step no thread is inside a part.
LEMMA NoneInside ==
  ASSUME \A u \in Threads : call'[u].at # "in",
         stream' \in Seq(Line), coming' \in Seq(Line),
         \A i \in 1..Len(coming') : coming'[i].by \in tardy',
         AllHarmless(stream', tardy')
  PROVE  StreamOK'
<1>1. \A u \in Threads : ~Reader(u)'
  BY DEF Reader
<1> QED  BY <1>1 DEF StreamOK

\* A command is sent.
LEMMA TransmitStream ==
  ASSUME IInv, StreamOK, NEW t \in Threads, Transmit(t)
  PROVE  StreamOK'
<1> DEFINE m == call[t].method
           i == call[t].step
<1>1. /\ RecordsOK /\ PlacesOK /\ InStep(t, "send") /\ call[t].at = "in" /\ call[t].ok \in BOOLEAN
      /\ m \in DOMAIN Table /\ i \in Nat \ {0}
      /\ stream \in Seq(Line) /\ coming \in Seq(Line)
      /\ \A k \in 1..Len(coming) : coming[k].by \in tardy
  BY DEF IInv, PlacesOK, Transmit, InStep, StreamOK
<1>2. PICK answer \in Step(t).answers :
        \/ /\ coming = <<>> /\ stream' = Aged(stream) \o Lines(answer, m)
           /\ UNCHANGED <<coming, tardy>>
        \/ /\ stream' = Aged(stream) /\ coming' = Aged(coming) \o Lines(answer, m)
           /\ tardy' = tardy \cup {m}
  BY DEF Transmit
<1>3. PICK o \in BOOLEAN :
        call' = [call EXCEPT ![t] = [at |-> call[t].at, method |-> m, part |-> call[t].part,
                                     step |-> i + 1 + 0, ok |-> o]]
  <2>1. GoOn(t, 0, TRUE) /\ TRUE \in BOOLEAN
    BY DEF Transmit
  <2> QED  BY <1>1, <2>1, GoesOn
<1>4. i + 1 + 0 = i + 1
  BY <1>1
<1>5. StepOf(m, i, Step(t)) /\ Step(t).op = "send"
  BY <1>1, StepIsSound
<1>6. answer \in Seq(Kinds) /\ (m = "getRev" => answer \in Seq(Words) /\ i # 2)
  BY <1>2, <1>5 DEF StepOf
<1>7. AllHarmless(stream, tardy)
  <2>1. CASE Reader(t)
    <3>1. PICK left, q : Follows(left, i, Step(t), q) /\ Unread(q, stream, tardy)
      BY <1>1, <2>1, ReaderFinds
    <3>2. q = <<>>
      BY <1>5, <3>1 DEF Follows
    <3> QED  BY <1>1, <3>1, <3>2, UnreadNone
  <2>2. CASE ~Reader(t)
    BY <1>1, <2>2, OtherFinds
  <2> QED  BY <2>1, <2>2
<1> DEFINE new == Lines(answer, m)
<1>8. /\ Aged(stream) \in Seq(Line) /\ Aged(coming) \in Seq(Line) /\ new \in Seq(Line)
      /\ Len(Aged(coming)) = Len(coming) /\ Len(new) = Len(answer)
      /\ \A k \in 1..Len(coming) : Aged(coming)[k].by = coming[k].by
      /\ \A k \in 1..Len(answer) : new[k].by = m
  <2>1. Aged(stream) \in Seq(Line)
    BY <1>1, AgedAre
  <2>2. /\ Aged(coming) \in Seq(Line) /\ Len(Aged(coming)) = Len(coming)
        /\ \A k \in 1..Len(coming) : Aged(coming)[k].by = coming[k].by
    BY <1>1, AgedAre
  <2>3. /\ new \in Seq(Line) /\ Len(new) = Len(answer)
        /\ \A k \in 1..Len(answer) : NewLine(new[k], answer[k], m)
    BY <1>1, <1>6, LinesAre
  <2>4. \A k \in 1..Len(answer) : new[k].by = m
    BY <2>3 DEF NewLine
  <2> QED  BY <2>1, <2>2, <2>3, <2>4
<1> HIDE DEF new
\* In time: the thread reads it to its end, or is not relied on.
<1>9. ASSUME coming = <<>>, stream' = Aged(stream) \o new, UNCHANGED <<coming, tardy>>
      PROVE  StreamOK'
  <2>1. Unread(answer, stream', tardy') /\ (~Trusts(tardy', m) => AllHarmless(stream', tardy'))
    BY <1>1, <1>6, <1>7, <1>9, SentIsUnread DEF new
  <2>2. Trusts(tardy', m) =>
          \E left, q : /\ Describes(left, Part(t).steps) /\ MayLeave(left, i + 1 + 0, q)
                       /\ Unread(q, stream', tardy') /\ (q # <<>> => coming' = <<>>)
    <3> SUFFICES ASSUME Trusts(tardy', m)
                 PROVE  \E left, q : /\ Describes(left, Part(t).steps)
                                     /\ MayLeave(left, i + 1 + 0, q)
                                     /\ Unread(q, stream', tardy') /\ (q # <<>> => coming' = <<>>)
      OBVIOUS
    <3>1. Reader(t)
      BY <1>1, <1>9 DEF Reader
    <3>2. PICK left, q : Describes(left, Part(t).steps) /\ Follows(left, i, Step(t), q)
      BY <1>1, <3>1, ReaderFinds
    <3>3. MayLeave(left, i + 1, answer)
      BY <1>2, <1>5, <3>2 DEF Follows
    <3> QED  BY <1>4, <1>9, <2>1, <3>2, <3>3
  <2>3. m = "getRev" => Dropped(i + 1 + 0, stream', tardy')
    <3> SUFFICES ASSUME m = "getRev"  PROVE Dropped(i + 1, stream', tardy')
      BY <1>4
    <3>1. Dropped(i, stream, tardy)
      BY <1>1 DEF StreamOK
    <3> QED  BY <1>1, <1>6, <1>9, <3>1, DroppedSent DEF new
  <2>4. stream' \in Seq(Line)
    BY <1>8, <1>9, JoinIs
  <2> QED  BY <1>1, <1>3, <1>9, <2>1, <2>2, <2>3, <2>4, StaysInside
\* Late: nothing the thread reads is relied on any more.
<1>10. ASSUME stream' = Aged(stream), coming' = Aged(coming) \o new, tardy' = tardy \cup {m}
       PROVE  StreamOK'
  <2>1. AllHarmless(stream', tardy')
    BY <1>1, <1>6, <1>7, <1>10, SentIsUnread
  <2>2. ~Trusts(tardy', m)
    BY <1>10 DEF Trusts
  <2>3. m = "getRev" => Dropped(i + 1 + 0, stream', tardy')
    <3> SUFFICES ASSUME m = "getRev"  PROVE Dropped(i + 1, stream', tardy')
      BY <1>4
    <3>1. Dropped(i, stream, tardy)
      BY <1>1 DEF StreamOK
    <3> QED  BY <1>1, <1>6, <1>10, <3>1, DroppedSent
  <2>4. stream' \in Seq(Line) /\ coming' \in Seq(Line)
    BY <1>8, <1>10, JoinIs
  <2>5. ASSUME NEW k \in 1..Len(coming')  PROVE coming'[k].by \in tardy'
    <3> DEFINE aged == Aged(coming)
    <3> HIDE DEF aged
    <3>1. /\ Len(coming') = Len(coming) + Len(answer)
          /\ Len(coming) \in Nat /\ Len(answer) \in Nat
          /\ \A j \in 1..Len(coming) : coming'[j] = aged[j]
          /\ \A j \in 1..Len(answer) : coming'[Len(coming) + j] = new[j]
      <4>1. aged \in Seq(Line) /\ new \in Seq(Line) /\ coming' = aged \o new
        BY <1>8, <1>10 DEF aged
      <4>2. Len(aged) = Len(coming) /\ Len(new) = Len(answer)
        BY <1>8 DEF aged
      <4>3. /\ Len(aged \o new) = Len(aged) + Len(new)
            /\ Len(aged) \in Nat /\ Len(new) \in Nat
            /\ \A j \in 1..Len(aged) : (aged \o new)[j] = aged[j]
            /\ \A j \in 1..Len(new) : (aged \o new)[Len(aged) + j] = new[j]
        BY <4>1, JoinIs
      <4> QED  BY <4>1, <4>2, <4>3, Zenon
    <3>2. CASE k <= Len(coming)
      <4>1. k \in 1..Len(coming)
        BY <3>1, <3>2
      <4>2. coming'[k].by = coming[k].by
        BY <1>8, <3>1, <4>1 DEF aged
      <4> QED  BY <1>1, <1>10, <4>1, <4>2
    <3>3. CASE ~(k <= Len(coming))
      <4> DEFINE j == k - Len(coming)
      <4>1. j \in 1..Len(answer) /\ k = Len(coming) + j
        BY <3>1, <3>3
      <4> HIDE DEF j
      <4>2. coming'[k].by = m
        BY <1>8, <3>1, <4>1
      <4> QED  BY <1>10, <4>2
    <3> QED  BY <3>2, <3>3
  <2> QED  BY <1>1, <1>3, <2>1, <2>2, <2>3, <2>4, <2>5, StaysInside
<1> QED  BY <1>2, <1>9, <1>10 DEF new

\* The line that is read, and the lines ahead of it, which do not match.
LEMMA FirstMatch ==
  ASSUME StreamOK, NEW t \in Threads, Receive(t)
  PROVE  \E i \in 1..Len(stream) :
           /\ i = Min(Matching(t)) /\ Takes(Step(t), stream[i].kind)
           /\ \A k \in 1..(i - 1) : ~Takes(Step(t), stream[k].kind)
<1>1. stream \in Seq(Line) /\ Matching(t) # {}
  BY DEF StreamOK, Receive
<1>2. \A k : k \in Matching(t) <=> k \in 1..Len(stream) /\ Takes(Step(t), stream[k].kind)
  BY <1>1 DEF Matching, Takes
<1>3. Matching(t) \subseteq Nat
  BY <1>2
<1> DEFINE i == Min(Matching(t))
<1>4. i \in Matching(t) /\ \A k \in Matching(t) : i <= k
  BY <1>1, <1>3, LeastIs
<1> HIDE DEF i
<1>5. i \in 1..Len(stream) /\ Takes(Step(t), stream[i].kind)
  BY <1>2, <1>4
<1>6. ASSUME NEW k \in 1..(i - 1)  PROVE ~Takes(Step(t), stream[k].kind)
  <2>1. k \in 1..Len(stream) /\ ~(i <= k)
    BY <1>1, <1>5
  <2> QED  BY <1>2, <1>4, <2>1
<1> QED  BY <1>5, <1>6 DEF i

\* A line of an earlier command is taken only if a method left it that is known to.
LEMMA TakenHasCause ==
  ASSUME IInv, StreamOK, NEW t \in Threads, InStep(t, "recv"), NEW i \in 1..Len(stream),
         Takes(Step(t), stream[i].kind), stream[i].old = TRUE
  PROVE  stream[i].by \in tardy \cup Untidy
<1> SUFFICES ASSUME Trusts(tardy, stream[i].by)  PROVE FALSE
  BY DEF Trusts
<1>1. /\ PlacesOK /\ call[t].at = "in" /\ stream \in Seq(Line)
      /\ StepOf(call[t].method, call[t].step, Step(t))
  BY StepIsSound DEF IInv, StreamOK, InStep
<1>2. Harmless(stream[i], tardy)
  <2>1. CASE Reader(t)
    <3>1. PICK q : Unread(q, stream, tardy)
      BY <1>1, <2>1, ReaderFinds
    <3> DEFINE n == Len(stream) - Len(q)
    <3>2. /\ n \in Nat /\ Len(stream) = n + Len(q) /\ Len(q) \in Nat
          /\ \A k \in 1..n : Harmless(stream[k], tardy)
          /\ \A j \in 1..Len(q) : stream[n + j].old = FALSE
      BY <1>1, <3>1 DEF Unread
    <3> HIDE DEF n
    <3>3. i <= n
      <4> SUFFICES ASSUME ~(i <= n)  PROVE FALSE
        OBVIOUS
      <4> DEFINE j == i - n
      <4>1. j \in 1..Len(q) /\ i = n + j
        BY <1>1, <3>2
      <4> HIDE DEF j
      <4> QED  BY <3>2, <4>1
    <3> QED  BY <3>2, <3>3
  <2>2. CASE ~Reader(t)
    BY <1>1, <2>2, OtherFinds DEF AllHarmless
  <2> QED  BY <2>1, <2>2
<1>3. stream[i].kind \in Strays /\ Stray(stream[i], tardy)
  BY <1>2 DEF Harmless, Stray
<1>4. "any" \in Step(t).kinds
  BY <1>1, <1>3 DEF StepOf, Takes
<1>5. call[t].method = "getRev" /\ call[t].step >= 3
  <2>1. ~(Step(t).kinds \subseteq Words)
    BY <1>4, AnswersAre
  <2> QED  BY <1>1, <2>1 DEF StepOf
<1>6. Dropped(call[t].step, stream, tardy)
  BY <1>1, <1>5 DEF StreamOK
<1> QED  BY <1>3, <1>5, <1>6 DEF Dropped

\* A line is read that answers the last command: what comes after it is unread then.
LEMMA ReceiveStream ==
  ASSUME IInv, StreamOK, NEW t \in Threads, Receive(t),
         stream[Min(Matching(t))].old # TRUE
  PROVE  StreamOK'
<1> DEFINE m == call[t].method
           s == call[t].step
<1>1. /\ RecordsOK /\ PlacesOK /\ InStep(t, "recv") /\ call[t].at = "in" /\ call[t].ok \in BOOLEAN
      /\ s \in Nat \ {0} /\ stream \in Seq(Line) /\ coming \in Seq(Line)
      /\ \A k \in 1..Len(coming) : coming[k].by \in tardy
      /\ UNCHANGED <<coming, tardy>>
  BY DEF IInv, PlacesOK, Receive, InStep, StreamOK
<1>2. PICK i \in 1..Len(stream) :
        /\ i = Min(Matching(t)) /\ Takes(Step(t), stream[i].kind)
        /\ \A k \in 1..(i - 1) : ~Takes(Step(t), stream[k].kind)
  BY FirstMatch
<1>3. stream[i].old = FALSE
  <2>1. \A l \in Line : l.old # TRUE => l.old = FALSE
    BY DEF Line
  <2>2. stream[i] \in Line
    BY <1>1
  <2>3. stream[i].old # TRUE
    BY <1>2, Zenon
  <2> QED  BY <2>1, <2>2, <2>3, Zenon
<1>4. stream' = SubSeq(stream, i + 1, Len(stream))
  BY <1>2 DEF Receive
<1> DEFINE n == IF stream[i].kind \in Step(t).stop THEN END ELSE Step(t).hit
<1>5. PICK o \in BOOLEAN :
        call' = [call EXCEPT ![t] = [at |-> call[t].at, method |-> m, part |-> call[t].part,
                                     step |-> s + 1 + n, ok |-> o]]
  <2>1. GoOn(t, n, TRUE) /\ TRUE \in BOOLEAN
    BY <1>2 DEF Receive
  <2> HIDE DEF n
  <2> QED  BY <1>1, <2>1, GoesOn
<1>6. StepOf(m, s, Step(t)) /\ Step(t).op = "recv"
  BY <1>1, StepIsSound
<1>7. stream' \in Seq(Line)
  <2>1. i + 1 \in 1..(Len(stream) + 1)
    BY <1>1
  <2> QED  BY <1>1, <1>4, <2>1
<1>8. m = "getRev" => Dropped(s + 1 + n, stream', tardy')
  <2> SUFFICES ASSUME m = "getRev"  PROVE Dropped(s + 1 + n, stream', tardy')
    OBVIOUS
  <2>1. s # 1 /\ Dropped(s, stream, tardy)
    BY <1>1, <1>6 DEF StepOf, StreamOK
  <2>2. s >= 2 /\ s \in Nat
    BY <1>1, <2>1
  <2> HIDE DEF n, s
  <2> QED  BY <1>1, <1>3, <1>4, <2>1, <2>2, DroppedRead
<1>9. ~Trusts(tardy', m) => AllHarmless(stream', tardy')
  <2> SUFFICES ASSUME ~Trusts(tardy, m)  PROVE AllHarmless(stream', tardy)
    BY <1>1
  <2>1. AllHarmless(stream, tardy)
    BY <1>1, OtherFinds DEF Reader
  <2> QED  BY <1>1, <1>4, <2>1, PartsHarmless
<1>10. ASSUME Trusts(tardy', m)
       PROVE  \E left, q : /\ Describes(left, Part(t).steps) /\ MayLeave(left, s + 1 + n, q)
                           /\ Unread(q, stream', tardy') /\ (q # <<>> => coming' = <<>>)
  <2>1. Reader(t)
    BY <1>1, <1>10 DEF Reader
  <2>2. PICK left, q : /\ Describes(left, Part(t).steps) /\ q \in Seq(Kinds)
                       /\ Follows(left, s, Step(t), q)
                       /\ Unread(q, stream, tardy) /\ (q # <<>> => coming = <<>>)
    BY <1>1, <2>1, ReaderFinds
  <2>3. CASE q = <<>>
    <3>1. MayLeave(left, s + 1 + Step(t).hit, <<>>) /\ MayLeave(left, s + 1 + END, <<>>)
      BY <1>6, <2>2, <2>3 DEF Follows
    <3>2. MayLeave(left, s + 1 + n, <<>>)
      BY <3>1
    <3>3. AllHarmless(stream', tardy)
      BY <1>1, <1>4, <2>2, <2>3, UnreadNone, PartsHarmless
    <3>4. Unread(<<>>, stream', tardy')
      BY <1>1, <1>7, <3>3, UnreadNone
    <3> QED  BY <2>2, <3>2, <3>4
  <2>4. CASE q # <<>>
    <3>1. PICK j \in 1..Len(q) :
            /\ stream[i].kind = q[j] /\ i = (Len(stream) - Len(q)) + j
            /\ Unread(SubSeq(q, j + 1, Len(q)), SubSeq(stream, i + 1, Len(stream)), tardy)
      BY <1>1, <1>3, <2>2, <2>4, TakenIs
    <3>2. ASSUME NEW k \in 1..(j - 1)  PROVE ~Takes(Step(t), q[k])
      <4> DEFINE before == Len(stream) - Len(q)
      <4>1. before \in Nat /\ k \in 1..Len(q) /\ before + k \in 1..(i - 1)
        <5>1. Len(q) \in Nat /\ Len(stream) \in Nat /\ Len(q) <= Len(stream)
          BY <1>1, <2>2 DEF Unread
        <5> QED  BY <3>1, <5>1
      <4>2. stream[before + k].kind = q[k]
        BY <2>2, <4>1 DEF Unread
      <4> HIDE DEF before
      <4> QED  BY <1>2, <4>1, <4>2
    <3>3. MayLeave(left, s + 1 + (IF q[j] \in Step(t).stop THEN END ELSE Step(t).hit),
                   SubSeq(q, j + 1, Len(q)))
      BY <1>2, <1>6, <2>2, <3>1, <3>2 DEF Follows
    <3>4. MayLeave(left, s + 1 + n, SubSeq(q, j + 1, Len(q)))
      BY <3>1, <3>3
    <3>5. Unread(SubSeq(q, j + 1, Len(q)), stream', tardy') /\ coming' = <<>>
      BY <1>1, <1>4, <2>2, <2>4, <3>1
    <3> QED  BY <2>2, <3>4, <3>5
  <2> QED  BY <2>3, <2>4
<1> HIDE DEF n
<1> QED  BY <1>1, <1>5, <1>7, <1>8, <1>9, <1>10, StaysInside

\* Nothing comes in time: all that was there is dropped.
LEMMA TimeOutStream ==
  ASSUME IInv, StreamOK, NEW t \in Threads, TimeOut(t)
  PROVE  StreamOK'
<1> DEFINE m == call[t].method
           s == call[t].step
<1>1. /\ RecordsOK /\ PlacesOK /\ InStep(t, "recv") /\ call[t].at = "in" /\ call[t].ok \in BOOLEAN
      /\ stream \in Seq(Line) /\ coming \in Seq(Line)
      /\ \A k \in 1..Len(coming) : coming[k].by \in tardy
      /\ UNCHANGED <<coming, tardy>> /\ stream' = <<>> /\ Matching(t) = {}
  BY DEF IInv, PlacesOK, TimeOut, InStep, StreamOK
<1>2. AllHarmless(stream', tardy') /\ stream' \in Seq(Line) /\ Unread(<<>>, stream', tardy')
  BY <1>1, UnreadNone
<1>3. CASE Step(t).keeps
  <2>1. call' = [call EXCEPT ![t] = [at |-> "idle", method |-> "", part |-> 1, step |-> 1,
                                     ok |-> TRUE]]
    BY <1>3 DEF TimeOut, Idle
  <2>2. call'[t].at = "idle" /\ \A u \in Threads \ {t} : call'[u] = call[u]
    BY <1>1, <2>1, OneMoves
  <2>3. \A u \in Threads : call'[u].at # "in"
    BY <1>1, <2>2, OneInside
  <2> QED  BY <1>1, <1>2, <2>3, NoneInside
<1>4. CASE ~Step(t).keeps
  <2> DEFINE n == Step(t).miss
  <2>1. PICK o \in BOOLEAN :
          call' = [call EXCEPT ![t] = [at |-> call[t].at, method |-> m, part |-> call[t].part,
                                       step |-> s + 1 + n, ok |-> o]]
    <3> DEFINE ok == ~Step(t).fails
    <3>1. GoOn(t, n, ok) /\ ok \in BOOLEAN
      BY <1>4 DEF TimeOut
    <3> HIDE DEF n, ok
    <3> QED  BY <1>1, <3>1, GoesOn
  <2>2. ASSUME Trusts(tardy', m)
        PROVE  \E left, q : /\ Describes(left, Part(t).steps) /\ MayLeave(left, s + 1 + n, q)
                            /\ Unread(q, stream', tardy') /\ (q # <<>> => coming' = <<>>)
    <3>1. Reader(t)
      BY <1>1, <2>2 DEF Reader
    <3>2. PICK left, q : /\ Describes(left, Part(t).steps) /\ q \in Seq(Kinds)
                         /\ Follows(left, s, Step(t), q) /\ Unread(q, stream, tardy)
      BY <1>1, <3>1, ReaderFinds
    <3>3. ASSUME NEW j \in 1..Len(q)  PROVE ~Takes(Step(t), q[j])
      <4> DEFINE before == Len(stream) - Len(q)
      <4>1. before + j \in 1..Len(stream)
        <5>1. Len(q) \in Nat /\ Len(stream) \in Nat /\ Len(q) <= Len(stream)
          BY <1>1, <3>2 DEF Unread
        <5> QED  BY <5>1
      <4>2. stream[before + j].kind = q[j]
        BY <3>2 DEF Unread
      <4> HIDE DEF before
      <4>3. \A k \in 1..Len(stream) : ~Takes(Step(t), stream[k].kind)
        BY <1>1 DEF Matching, Takes
      <4> QED  BY <4>1, <4>2, <4>3
    <3>4. Step(t).op = "recv"
      BY <1>1, StepIsSound
    <3>5. MayLeave(left, s + 1 + n, <<>>)
      BY <3>2, <3>3, <3>4 DEF Follows
    <3> QED  BY <1>2, <3>2, <3>5
  <2>3. Dropped(s + 1 + n, stream', tardy')
    BY <1>1, DroppedNone
  <2> HIDE DEF n
  <2> QED  BY <1>1, <1>2, <2>1, <2>2, <2>3, StaysInside
<1> QED  BY <1>3, <1>4

\* The default time-out is set again: by a method that is not relied on.
LEMMA SetBackStream ==
  ASSUME IInv, StreamOK, NEW t \in Threads, SetBack(t)
  PROVE  StreamOK'
<1> DEFINE m == call[t].method
           s == call[t].step
           n == Step(t).hit
<1>1. /\ RecordsOK /\ PlacesOK /\ InStep(t, "back") /\ call[t].at = "in" /\ call[t].ok \in BOOLEAN
      /\ stream \in Seq(Line) /\ coming \in Seq(Line) /\ s \in Nat \ {0}
      /\ \A k \in 1..Len(coming) : coming[k].by \in tardy
      /\ UNCHANGED <<stream, coming, tardy>>
  BY DEF IInv, PlacesOK, SetBack, InStep, StreamOK, history
<1>2. PICK o \in BOOLEAN :
        call' = [call EXCEPT ![t] = [at |-> call[t].at, method |-> m, part |-> call[t].part,
                                     step |-> s + 1 + n, ok |-> o]]
  <2>1. GoOn(t, n, TRUE) /\ TRUE \in BOOLEAN
    BY DEF SetBack
  <2> HIDE DEF n
  <2> QED  BY <1>1, <2>1, GoesOn
<1>3. StepOf(m, s, Step(t)) /\ Step(t).op = "back"
  BY <1>1, StepIsSound
<1>4. ~Reader(t)
  BY <1>1, <1>3, ReaderFinds DEF Follows
<1>5. ~Trusts(tardy', m) /\ AllHarmless(stream', tardy')
  BY <1>1, <1>4, OtherFinds DEF Reader
<1>6. m = "getRev" => Dropped(s + 1 + n, stream', tardy')
  <2> SUFFICES ASSUME m = "getRev"  PROVE Dropped(s + 1 + n, stream, tardy)
    BY <1>1
  <2>1. s # 1 /\ s # 2 /\ Dropped(s, stream, tardy)
    BY <1>1, <1>3 DEF StepOf, StreamOK
  <2>2. s >= 3 /\ s \in Nat
    BY <1>1, <2>1
  <2> HIDE DEF n, s
  <2> QED  BY <2>1, <2>2, DroppedAll
<1> HIDE DEF n
<1> QED  BY <1>1, <1>2, <1>5, <1>6, StaysInside

\* A part begins: no other thread is inside one, and what is in the stream does no harm.
LEMMA LockStream ==
  ASSUME IInv, StreamOK, NEW t \in Threads, Lock(t), call[t].step = 1
  PROVE  StreamOK'
<1> DEFINE m == call[t].method
<1>1. /\ RecordsOK /\ PlacesOK /\ call[t].at = "lock" /\ mutex.owner \in {NoThread, t}
      /\ stream \in Seq(Line) /\ coming \in Seq(Line)
      /\ \A k \in 1..Len(coming) : coming[k].by \in tardy
      /\ UNCHANGED <<stream, coming, tardy>>
      /\ m \in DOMAIN Table /\ call[t].part \in DOMAIN Table[m]
  BY DEF IInv, PlacesOK, Lock, StreamOK, history
<1>2. \A u \in Threads : call[u].at # "in"
  BY <1>1, ThreadAssumption DEF PlacesOK
<1>3. call' = [call EXCEPT ![t] = [at |-> "in", method |-> m, part |-> call[t].part,
                                   step |-> call[t].step, ok |-> call[t].ok]]
  <2>1. DOMAIN call = Threads /\ call' = [call EXCEPT ![t] = [call[t] EXCEPT !.at = "in"]]
    BY <1>1 DEF RecordsOK, Lock
  <2>2. [call[t] EXCEPT !.at = "in"] = [at |-> "in", method |-> m, part |-> call[t].part,
                                        step |-> call[t].step, ok |-> call[t].ok]
    BY <1>1 DEF RecordsOK
  <2> QED  BY <2>1, <2>2
<1>4. /\ call'[t].at = "in" /\ call'[t].method = m /\ call'[t].part = call[t].part
      /\ call'[t].step = 1 /\ \A u \in Threads \ {t} : call'[u] = call[u]
  <2>1. RecordsOK
    BY <1>1
  <2> QED  BY <1>3, <2>1, OneMoves
<1>5. AllHarmless(stream, tardy)
  BY <1>2 DEF StreamOK, Reader
<1>6. \A u \in Threads \ {t} : call'[u].at # "in" /\ ~Reader(u)'
  BY <1>2, <1>4 DEF Reader
<1>7. ASSUME NEW u \in Threads, Reader(u)'
      PROVE  \E left : Describes(left, Part(u).steps)' /\ Reads(left, call[u].step, tardy)'
  <2>1. u = t /\ Trusts(tardy, m)
    BY <1>1, <1>4, <1>6, <1>7 DEF Reader
  <2>2. Part(u)' = Table[m][call[t].part] /\ call'[u].step = 1
    BY <1>4, <2>1 DEF Part
  <2>3. m \in DOMAIN Table \ Untidy
    BY <1>1, <2>1 DEF Trusts
  <2>4. PICK left : Describes(left, Table[m][call[t].part].steps)
    BY <1>1, <2>3, TableIsRead DEF TableReads, ReadsToEnd
  <2>5. MayLeave(left, 1, <<>>)
    BY <2>4 DEF Describes
  <2>6. Unread(<<>>, stream', tardy')
    BY <1>1, <1>5, UnreadNone
  <2>7. Reads(left, call[u].step, tardy)'
    BY <2>2, <2>5, <2>6 DEF Reads
  <2>8. Describes(left, Part(u).steps)'
    BY <2>2, <2>4, Zenon
  <2> QED  BY <2>7, <2>8, Zenon
<1>8. ASSUME NEW u \in Threads, call'[u].at = "in", call'[u].method = "getRev"
      PROVE  Dropped(call'[u].step, stream', tardy')
  <2>1. call'[u].step = 1
    BY <1>4, <1>6, <1>8
  <2> QED  BY <2>1 DEF Dropped
<1>9. (\A u \in Threads : ~Reader(u)') => AllHarmless(stream', tardy')
  BY <1>1, <1>5
<1>10. /\ stream' \in Seq(Line) /\ coming' \in Seq(Line)
       /\ \A k \in 1..Len(coming') : coming'[k].by \in tardy'
  BY <1>1
<1> QED  BY <1>7, <1>8, <1>9, <1>10, Zenon DEF StreamOK

\* Where a thread is after a part, and how a call begins.
LEMMA UnlockMoves ==
  ASSUME RecordsOK, NEW t \in Threads, Unlock(t)
  PROVE  /\ call'[t].at # "in" /\ call'[t].step = 1
         /\ \A u \in Threads \ {t} : call'[u] = call[u]
<1> DEFINE m == call[t].method
<1>1. \E a, x, p :
        /\ call' = [call EXCEPT ![t] = [at |-> a, method |-> x, part |-> p, step |-> 1, ok |-> TRUE]]
        /\ a # "in"
  <2>1. PICK next : call' = [call EXCEPT ![t] = IF next = 0 THEN Idle ELSE About(m, next)]
    BY DEF Unlock
  <2>2. "idle" # "in" /\ "lock" # "in"
    OBVIOUS
  <2>3. CASE next = 0
    BY <2>1, <2>2, <2>3, Zenon DEF Idle
  <2>4. CASE next # 0
    BY <2>1, <2>2, <2>4, Zenon DEF About
  <2> QED  BY <2>3, <2>4
<1>2. PICK a, x, p :
        /\ call' = [call EXCEPT ![t] = [at |-> a, method |-> x, part |-> p, step |-> 1, ok |-> TRUE]]
        /\ a # "in"
  BY <1>1
<1>3. /\ call'[t].at = a /\ call'[t].step = 1
      /\ \A u \in Threads \ {t} : call'[u] = call[u]
  BY <1>2, OneMoves
<1> QED  BY <1>2, <1>3

LEMMA CallMoves ==
  ASSUME RecordsOK, NEW t \in Threads, NEW m, Call(t, m)
  PROVE  /\ call[t].at = "idle" /\ call'[t].at # "in" /\ call'[t].step = 1
         /\ \A u \in Threads \ {t} : call'[u] = call[u]
<1>1. call' = [call EXCEPT ![t] = [at |-> "lock", method |-> m, part |-> 1, step |-> 1, ok |-> TRUE]]
  BY DEF Call, About
<1>2. /\ call'[t].at = "lock" /\ call'[t].step = 1
      /\ \A u \in Threads \ {t} : call'[u] = call[u]
  BY <1>1, OneMoves
<1> QED  BY <1>2 DEF Call

\* A part ends: what it leaves no method reads.
LEMMA UnlockStream ==
  ASSUME IInv, StreamOK, NEW t \in Threads, Unlock(t)
  PROVE  StreamOK'
<1> DEFINE m == call[t].method
           s == call[t].step
<1>1. /\ RecordsOK /\ PlacesOK /\ call[t].at = "in" /\ s > Len(Part(t).steps)
      /\ stream \in Seq(Line) /\ coming \in Seq(Line)
      /\ \A k \in 1..Len(coming) : coming[k].by \in tardy
      /\ UNCHANGED <<coming, tardy>> /\ stream' \in {stream, <<>>}
      /\ m \in DOMAIN Table /\ call[t].part \in DOMAIN Table[m] /\ s \in Nat
  BY DEF IInv, PlacesOK, Unlock, StreamOK, history
<1>3. call'[t].at # "in" /\ \A u \in Threads \ {t} : call'[u] = call[u]
  BY <1>1, UnlockMoves
<1>4. \A u \in Threads : call'[u].at # "in"
  BY <1>1, <1>3, OneInside
<1>5. AllHarmless(stream, tardy)
  <2>1. CASE Reader(t)
    <3>1. PICK left : Describes(left, Part(t).steps) /\ Reads(left, s, tardy)
      BY <2>1 DEF StreamOK
    <3>2. PICK q : MayLeave(left, s, q) /\ Unread(q, stream, tardy)
      BY <3>1 DEF Reads
    <3>3. s \notin DOMAIN left
      <4>1. DOMAIN left = 1..Len(Part(t).steps)
        BY <3>1 DEF Describes
      <4>2. Len(Part(t).steps) \in Nat
        BY <1>1, StepsOfMethod DEF Part
      <4> QED  BY <1>1, <4>1, <4>2
    <3>4. \A j \in 1..Len(q) : q[j] \in Strays
      BY <3>2, <3>3 DEF MayLeave
    <3> QED  BY <1>1, <3>2, <3>4, UnreadStrays
  <2>2. CASE ~Reader(t)
    BY <1>1, <2>2, OtherFinds
  <2> QED  BY <2>1, <2>2
<1>6. AllHarmless(stream', tardy') /\ stream' \in Seq(Line)
  BY <1>1, <1>5, UnreadNone
<1> QED  BY <1>1, <1>4, <1>6, NoneInside

\* Late answers arrive: nothing of an answer that was in time is unread before them.
LEMMA ArriveStream ==
  ASSUME IInv, StreamOK, Arrive
  PROVE  StreamOK'
<1>1. /\ stream \in Seq(Line) /\ coming \in Seq(Line) /\ coming # <<>>
      /\ \A k \in 1..Len(coming) : coming[k].by \in tardy
      /\ stream' = stream \o coming /\ coming' = <<>> /\ UNCHANGED <<call, tardy>>
  BY DEF StreamOK, Arrive, history
<1>2. /\ stream' \in Seq(Line) /\ coming' \in Seq(Line)
      /\ \A k \in 1..Len(coming') : coming'[k].by \in tardy'
  BY <1>1
<1>3. AllHarmless(stream, tardy) => AllHarmless(stream', tardy')
  BY <1>1, PartsHarmless
<1>4. ASSUME NEW u \in Threads, Reader(u)'
      PROVE  \E left : Describes(left, Part(u).steps)' /\ Reads(left, call[u].step, tardy)'
  <2>1. Reader(u) /\ Part(u)' = Part(u) /\ call'[u].step = call[u].step
    BY <1>1, <1>4 DEF Reader, Part
  <2>2. PICK left : Describes(left, Part(u).steps) /\ Reads(left, call[u].step, tardy)
    BY <2>1 DEF StreamOK
  <2>3. MayLeave(left, call[u].step, <<>>) /\ Unread(<<>>, stream, tardy)
    BY <1>1, <2>2 DEF Reads
  <2>4. Unread(<<>>, stream', tardy')
    BY <1>1, <1>2, <1>3, <2>3, UnreadNone
  <2>5. Reads(left, call[u].step, tardy)'
    BY <2>1, <2>3, <2>4 DEF Reads
  <2>6. Describes(left, Part(u).steps)'
    BY <2>1, <2>2, Zenon
  <2> QED  BY <2>5, <2>6, Zenon
<1>5. ASSUME \A u \in Threads : ~Reader(u)'  PROVE AllHarmless(stream', tardy')
  <2>1. \A u \in Threads : ~Reader(u)
    BY <1>1, <1>5 DEF Reader
  <2> QED  BY <1>3, <2>1 DEF StreamOK
<1>6. ASSUME NEW u \in Threads, call'[u].at = "in", call'[u].method = "getRev"
      PROVE  Dropped(call'[u].step, stream', tardy')
  <2>1. Dropped(call[u].step, stream, tardy)
    BY <1>1, <1>6 DEF StreamOK
  <2> QED  BY <1>1, <2>1, DroppedMore
<1> QED  BY <1>2, <1>4, <1>5, <1>6, Zenon DEF StreamOK

\* A call begins, or nothing happens.
LEMMA OutsideStream ==
  ASSUME IInv, StreamOK, (\E t \in Threads : \E m \in Used : Call(t, m)) \/ UNCHANGED vars
  PROVE  StreamOK'
<1>1. /\ stream \in Seq(Line) /\ coming \in Seq(Line)
      /\ \A k \in 1..Len(coming) : coming[k].by \in tardy
      /\ UNCHANGED <<stream, coming, tardy>> /\ RecordsOK
  BY DEF IInv, StreamOK, Call, vars, history
<1>2. \A u \in Threads : (call[u].at = "in" \/ call'[u].at = "in") => call'[u] = call[u]
  <2>1. CASE UNCHANGED vars
    BY <2>1 DEF vars
  <2>2. CASE \E t \in Threads : \E m \in Used : Call(t, m)
    <3>1. PICK t \in Threads : \E m \in Used : Call(t, m)
      BY <2>2
    <3>2. PICK m \in Used : Call(t, m)
      BY <3>1
    <3>3. /\ call[t].at = "idle" /\ call'[t].at # "in"
          /\ \A u \in Threads \ {t} : call'[u] = call[u]
      BY <1>1, <3>2, CallMoves
    <3>4. call[t].at # "in"
      BY <3>3
    <3> QED  BY <3>3, <3>4, Zenon
  <2> QED  BY <2>1, <2>2
<1>3. \A u \in Threads : Reader(u)' <=> Reader(u)
  BY <1>1, <1>2 DEF Reader
<1>4. ASSUME NEW u \in Threads, Reader(u)'
      PROVE  \E left : Describes(left, Part(u).steps)' /\ Reads(left, call[u].step, tardy)'
  <2>1. call'[u] = call[u]
    BY <1>2, <1>4 DEF Reader
  <2>2. Reader(u) /\ Part(u)' = Part(u) /\ call'[u].step = call[u].step
    BY <1>3, <1>4, <2>1 DEF Part
  <2>3. PICK left : Describes(left, Part(u).steps) /\ Reads(left, call[u].step, tardy)
    BY <2>2 DEF StreamOK
  <2>4. Reads(left, call[u].step, tardy)'
    BY <1>1, <2>2, <2>3 DEF Reads
  <2>5. Describes(left, Part(u).steps)'
    BY <2>2, <2>3, Zenon
  <2> QED  BY <2>4, <2>5, Zenon
<1>5. ASSUME \A u \in Threads : ~Reader(u)'  PROVE AllHarmless(stream', tardy')
  BY <1>1, <1>3, <1>5 DEF StreamOK
<1>6. ASSUME NEW u \in Threads, call'[u].at = "in", call'[u].method = "getRev"
      PROVE  Dropped(call'[u].step, stream', tardy')
  BY <1>1, <1>2, <1>6 DEF StreamOK
<1>7. /\ stream' \in Seq(Line) /\ coming' \in Seq(Line)
      /\ \A k \in 1..Len(coming') : coming'[k].by \in tardy'
  BY <1>1
<1> QED  BY <1>4, <1>5, <1>6, <1>7, Zenon DEF StreamOK

\* A thread that is about to lock the mutex is at the first step.
LEMMA FirstStepsKept ==
  ASSUME IInv, FirstSteps, [Next]_vars
  PROVE  FirstSteps'
<1>1. RecordsOK /\ PlacesOK
  BY DEF IInv
<1>2. ASSUME NEW t \in Threads, \A u \in Threads \ {t} : call'[u] = call[u],
             call'[t].at # "lock" \/ call'[t].step = 1
      PROVE  FirstSteps'
  BY <1>2 DEF FirstSteps
<1>3. ASSUME NEW t \in Threads, NEW m \in Used, Call(t, m)  PROVE FirstSteps'
  BY <1>1, <1>2, <1>3, CallMoves
<1>4. ASSUME NEW t \in Threads, Unlock(t)  PROVE FirstSteps'
  BY <1>1, <1>2, <1>4, UnlockMoves
<1>5. ASSUME NEW t \in Threads, Lock(t)  PROVE FirstSteps'
  <2>1. DOMAIN call = Threads /\ call' = [call EXCEPT ![t] = [call[t] EXCEPT !.at = "in"]]
    BY <1>1, <1>5 DEF RecordsOK, Lock
  <2>2. [call[t] EXCEPT !.at = "in"] = [at |-> "in", method |-> call[t].method,
                                        part |-> call[t].part, step |-> call[t].step,
                                        ok |-> call[t].ok]
    BY <1>1 DEF RecordsOK
  <2>3. call'[t].at = "in" /\ \A u \in Threads \ {t} : call'[u] = call[u]
    BY <1>1, <2>1, <2>2, OneMoves
  <2> QED  BY <1>2, <2>3
<1>6. ASSUME NEW t \in Threads, call[t].at = "in", NEW n, NEW ok \in BOOLEAN, GoOn(t, n, ok)
      PROVE  FirstSteps'
  <2>1. call[t].ok \in BOOLEAN
    BY <1>1 DEF PlacesOK
  <2>2. PICK o \in BOOLEAN :
          call' = [call EXCEPT ![t] = [at |-> call[t].at, method |-> call[t].method,
                                       part |-> call[t].part, step |-> call[t].step + 1 + n,
                                       ok |-> o]]
    BY <1>1, <1>6, <2>1, GoesOn
  <2> DEFINE s == call[t].step + 1 + n
  <2> HIDE DEF s
  <2>3. call' = [call EXCEPT ![t] = [at |-> call[t].at, method |-> call[t].method,
                                     part |-> call[t].part, step |-> s, ok |-> o]]
    BY <2>2 DEF s
  <2>4. call'[t].at = "in" /\ \A u \in Threads \ {t} : call'[u] = call[u]
    BY <1>1, <1>6, <2>3, OneMoves
  <2> QED  BY <1>2, <2>4
<1>7. ASSUME NEW t \in Threads, Transmit(t) \/ SetBack(t) \/ Receive(t)
                                \/ (TimeOut(t) /\ ~Step(t).keeps)
      PROVE  FirstSteps'
  <2>1. call[t].at = "in" /\ TRUE \in BOOLEAN
    BY <1>7 DEF Transmit, SetBack, Receive, TimeOut, InStep
  <2>2. (\E n : GoOn(t, n, TRUE)) \/ GoOn(t, Step(t).miss, ~Step(t).fails)
    BY <1>7 DEF Transmit, SetBack, Receive, TimeOut
  <2> DEFINE ok == ~Step(t).fails
  <2>3. ok \in BOOLEAN /\ ((\E n : GoOn(t, n, TRUE)) \/ GoOn(t, Step(t).miss, ok))
    BY <2>2
  <2> HIDE DEF ok
  <2> QED  BY <1>6, <2>1, <2>3
<1>8. ASSUME NEW t \in Threads, TimeOut(t), Step(t).keeps  PROVE FirstSteps'
  <2>1. call' = [call EXCEPT ![t] = [at |-> "idle", method |-> "", part |-> 1, step |-> 1,
                                     ok |-> TRUE]]
    BY <1>8 DEF TimeOut, Idle
  <2>2. call'[t].at = "idle" /\ \A u \in Threads \ {t} : call'[u] = call[u]
    BY <1>1, <2>1, OneMoves
  <2> QED  BY <1>2, <2>2
<1>9. ASSUME UNCHANGED call  PROVE FirstSteps'
  BY <1>9 DEF FirstSteps
<1>10. (Arrive \/ UNCHANGED vars) => UNCHANGED call
  BY DEF Arrive, vars
<1> QED  BY <1>3, <1>4, <1>5, <1>7, <1>8, <1>9, <1>10 DEF Next

\* No step disturbs the stream, up to the first line that is taken for another's.
LEMMA StreamKept ==
  ASSUME IInv, FirstSteps, StreamOK, [Next]_vars, mixups = <<>>, mixups' = <<>>
  PROVE  StreamOK'
<1>1. ASSUME NEW t \in Threads, Lock(t)  PROVE StreamOK'
  <2>1. call[t].step = 1
    BY <1>1 DEF FirstSteps, Lock
  <2> QED  BY <1>1, <2>1, LockStream
<1>2. ASSUME NEW t \in Threads, Receive(t)  PROVE StreamOK'
  <2> DEFINE line == stream[Min(Matching(t))]
             mix  == [taker |-> call[t].method, part |-> call[t].part, giver |-> line.by]
  <2>1. mixups' = IF line.old THEN Append(mixups, mix) ELSE mixups
    BY <1>2, Zenon DEF Receive
  <2> HIDE DEF line, mix
  <2>2. Append(<<>>, mix) # <<>>
    OBVIOUS
  <2>3. line.old # TRUE
    BY <2>1, <2>2
  <2> QED  BY <1>2, <2>3, ReceiveStream DEF line
<1>3. CASE \E t \in Threads : Transmit(t)
  BY <1>3, TransmitStream
<1>4. CASE \E t \in Threads : TimeOut(t)
  BY <1>4, TimeOutStream
<1>5. CASE \E t \in Threads : SetBack(t)
  BY <1>5, SetBackStream
<1>6. CASE \E t \in Threads : Unlock(t)
  BY <1>6, UnlockStream
<1>7. CASE Arrive
  BY <1>7, ArriveStream
<1>8. CASE (\E t \in Threads : \E m \in Used : Call(t, m)) \/ UNCHANGED vars
  BY <1>8, OutsideStream
<1> QED  BY <1>1, <1>2, <1>3, <1>4, <1>5, <1>6, <1>7, <1>8 DEF Next

\* A step records at most one line taken for another's, at the end of the record.
LEMMA MixupsGrow ==
  ASSUME [Next]_vars
  PROVE  /\ tardy \subseteq tardy'
         /\ \/ mixups' = mixups
            \/ \E t \in Threads : \E i, mix :
                 /\ Receive(t) /\ i = Min(Matching(t)) /\ stream[i].old
                 /\ mix.giver = stream[i].by /\ mixups' = Append(mixups, mix)
<1>1. ASSUME NEW t \in Threads, Receive(t)
      PROVE  /\ tardy' = tardy
             /\ \/ mixups' = mixups
                \/ \E i, mix : /\ i = Min(Matching(t)) /\ stream[i].old
                               /\ mix.giver = stream[i].by /\ mixups' = Append(mixups, mix)
  <2> DEFINE i    == Min(Matching(t))
             mix  == [taker |-> call[t].method, part |-> call[t].part, giver |-> stream[i].by]
  <2>1. mixups' = IF stream[i].old THEN Append(mixups, mix) ELSE mixups
    BY <1>1, Zenon DEF Receive
  <2>2. mix.giver = stream[i].by
    OBVIOUS
  <2>3. tardy' = tardy
    BY <1>1 DEF Receive
  <2>4. i = Min(Matching(t))
    OBVIOUS
  <2> HIDE DEF i, mix
  <2>5. CASE stream[i].old
    <3>1. mixups' = Append(mixups, mix)
      BY <2>1, <2>5
    <3> QED  BY <2>2, <2>3, <2>4, <2>5, <3>1
  <2>6. CASE ~stream[i].old
    BY <2>1, <2>3, <2>6
  <2> QED  BY <2>5, <2>6
<1>2. ASSUME NEW t \in Threads, Transmit(t)  PROVE tardy \subseteq tardy' /\ mixups' = mixups
  BY <1>2 DEF Transmit
<1>3. ASSUME NEW t \in Threads, \/ \E m \in Used : Call(t, m)
                                \/ Lock(t) \/ TimeOut(t) \/ SetBack(t) \/ Unlock(t)
      PROVE  tardy' = tardy /\ mixups' = mixups
  BY <1>3 DEF Call, Lock, TimeOut, SetBack, Unlock, history
<1>4. ASSUME Arrive \/ UNCHANGED vars  PROVE tardy' = tardy /\ mixups' = mixups
  BY <1>4 DEF Arrive, vars, history
<1> QED  BY <1>1, <1>2, <1>3, <1>4 DEF Next

LEMMA InitMix == Init => MixInv
<1> SUFFICES ASSUME Init  PROVE MixInv
  OBVIOUS
<1>1. stream = <<>> /\ coming = <<>> /\ mixups = <<>>
  BY DEF Init
<1>2. \A t \in Threads : call[t].at = "idle"
  BY DEF Init, Idle
<1>3. \A t \in Threads : ~Reader(t) /\ call[t].at # "in" /\ call[t].at # "lock"
  BY <1>2 DEF Reader
<1>4. AllHarmless(stream, tardy) /\ stream \in Seq(Line) /\ coming \in Seq(Line) /\ Len(coming) = 0
  <2>1. <<>> \in Seq(Line) /\ Len(<<>>) = 0
    OBVIOUS
  <2> QED  BY <1>1, <2>1, UnreadNone
<1>5. StreamOK
  BY <1>3, <1>4 DEF StreamOK
<1>6. \E S : mixups \in Seq(S)
  BY <1>1
<1> QED  BY <1>1, <1>3, <1>5, <1>6 DEF MixInv, MixupHasCause, FirstSteps

LEMMA MixKept == IInv /\ MixInv /\ [Next]_vars => MixInv'
<1> SUFFICES ASSUME IInv, MixInv, [Next]_vars  PROVE MixInv'
  OBVIOUS
<1>1. FirstSteps'
  BY FirstStepsKept DEF MixInv
<1>2. PICK S : mixups \in Seq(S)
  BY DEF MixInv
<1>3. CASE mixups' = mixups
  <2>1. MixupHasCause'
    BY <1>3, MixupsGrow DEF MixInv, MixupHasCause
  <2>2. mixups' = <<>> => StreamOK'
    BY <1>3, StreamKept DEF MixInv
  <2> QED  BY <1>1, <1>2, <1>3, <2>1, <2>2 DEF MixInv
<1>4. CASE mixups' # mixups
  <2>0. PICK t \in Threads : \E i, mix :
          /\ Receive(t) /\ i = Min(Matching(t)) /\ stream[i].old
          /\ mix.giver = stream[i].by /\ mixups' = Append(mixups, mix)
    BY <1>4, MixupsGrow
  <2>1. PICK i, mix :
          /\ Receive(t) /\ i = Min(Matching(t)) /\ stream[i].old
          /\ mix.giver = stream[i].by /\ mixups' = Append(mixups, mix)
    BY <2>0
  <2>2. /\ mixups' \in Seq(S \cup {mix}) /\ mixups' # <<>>
        /\ mixups = <<>> => mixups'[1] = mix
        /\ mixups # <<>> => mixups'[1] = mixups[1]
    <3>1. mixups \in Seq(S \cup {mix})
      BY <1>2
    <3> QED  BY <2>1, <3>1
  <2>3. ASSUME mixups # <<>>  PROVE mixups'[1].giver \in tardy' \cup Untidy
    <3>1. mixups'[1] = mixups[1] /\ tardy \subseteq tardy'
      BY <2>2, <2>3, MixupsGrow
    <3>2. mixups[1].giver \in tardy \cup Untidy
      BY <2>3 DEF MixInv, MixupHasCause
    <3> QED  BY <3>1, <3>2
  <2>4. ASSUME mixups = <<>>  PROVE mixups'[1].giver \in tardy' \cup Untidy
    <3>1. StreamOK
      BY <2>4 DEF MixInv
    <3>2. i \in 1..Len(stream) /\ Takes(Step(t), stream[i].kind)
      BY <2>1, <3>1, FirstMatch
    <3>3. InStep(t, "recv") /\ stream[i].old = TRUE
      <4>1. stream[i] \in Line
        BY <3>1, <3>2 DEF StreamOK
      <4>2. stream[i].old \in BOOLEAN
        BY <4>1 DEF Line
      <4> QED  BY <2>1, <4>2 DEF Receive
    <3>4. stream[i].by \in tardy \cup Untidy
      BY <3>1, <3>2, <3>3, TakenHasCause
    <3>5. mixups'[1] = mix /\ mix.giver = stream[i].by /\ tardy \subseteq tardy'
      BY <2>1, <2>2, <2>4, MixupsGrow
    <3> QED  BY <3>4, <3>5
  <2>5. mixups'[1].giver \in tardy' \cup Untidy
    BY <2>3, <2>4
  <2>6. MixupHasCause'
    BY <2>5 DEF MixupHasCause
  <2> QED  BY <1>1, <2>2, <2>6 DEF MixInv
<1> QED  BY <1>3, <1>4

-----------------------------------------------------------------------------
(* The theorems.                                                           *)

\* The methods' scripts, and the counting of the recursive mutex, keep the invariant,
\* in whatever order threads call and however late the modem answers.
THEOREM AlwaysIInv == Spec => []IInv
  BY InitIInv, NextKeeps, PTL DEF Spec

\* The mutex is locked at most as often as methods were called, only its owner is
\* inside one, and a thread is in a part of the method it called.
THEOREM TypeCorrect == Spec => []TypeOK
<1>1. IInv => TypeOK
  <2> SUFFICES ASSUME IInv  PROVE TypeOK
    OBVIOUS
  <2>1. mutex.count \in 0..MAX_CALLS
    BY FS_CardinalityType, BoundAssumption DEF IInv, LocksCounted
  <2> QED  BY <2>1 DEF IInv, PlacesOK, LocksCounted, TypeOK
<1> QED  BY <1>1, AlwaysIInv, PTL

\* Whatever the methods and the order of their calls: when no thread has the mutex,
\* the parser waits BG96_AT_TIMEOUT, but between the two parts of BG96::connect.
THEOREM TimeoutsRestored == Spec => []TimeoutRestored
<1>1. IInv => TimeoutRestored
  BY ThreadAssumption
     DEF IInv, TimeoutRestored, OwnHasReason, MutexKept, Activating
<1> QED  BY <1>1, AlwaysIInv, PTL

\* Of all the methods, mqtt_publish and connect are the ones through which a thread
\* comes to leave the driver with the mutex, or to lock it twice.
THEOREM MutexKeptByTwo == Spec => []KeptByTwoOnly
<1>1. IInv => KeptByTwoOnly
  BY ThreadAssumption DEF IInv, KeptByThose, KeptByTwoOnly, MutexKept, Keeping
<1> QED  BY <1>1, AlwaysIInv, PTL

\* Every method but those of Untidy reads the answer to its command to the end, on each
\* way through its steps; so, whichever methods two threads call, the first line that one
\* takes for another's reply was late or comes from one of these.
THEOREM FirstMixupHasCause == Spec => []MixupHasCause
<1>1. MixInv => MixupHasCause
  BY DEF MixInv
<1>2. Spec => []MixInv
  BY AlwaysIInv, InitMix, MixKept, PTL DEF Spec
<1> QED  BY <1>1, <1>2, PTL

=============================================================================
