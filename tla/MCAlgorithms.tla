---------------------------- MODULE MCAlgorithms ----------------------------
(***************************************************************************)
(* One instance for the parts that need little state: the pure functions,  *)
(* applied to every input of a bounded set (a tagged record in `input`),   *)
(* and six small machines - the walk of a receiver through a file, the log *)
(* files, the transfer history, the receive timer, the buffer pool and the *)
(* rate limiter.  The first step picks the part.                           *)
(***************************************************************************)
EXTENDS BlockWalk, LogFiles, TransferLog, ReceiveTimer, BufferPool, RateLimiter

CONSTANT MaxText        \* bound: bytes of a netascii file

\* The transfers of the instance
SomeRecords ==
  {[id |-> "t1", dir |-> "Read", status |-> "Completed", retx |-> 0],
   [id |-> "t2", dir |-> "Write", status |-> "Failed", retx |-> 3],
   [id |-> "t3", dir |-> "Read", status |-> "Cancelled", retx |-> 1],
   [id |-> "t4", dir |-> "Write", status |-> "Completed", retx |-> 0]}

VARIABLE input

T == INSTANCE Netascii
P == INSTANCE PacketCodec
A == INSTANCE AccessControl
V == INSTANCE VirtualPaths

allVars == <<input, vars, logVars, transferVars, timerVars, poolVars, rateVars>>

-----------------------------------------------------------------------------
(***************************************************************************)
(* Inputs                                                                  *)
(***************************************************************************)

\* The defaults of ProtocolConfig, and a configuration of small limits
Configs ==
  {[defaultBlksize |-> 512, maxBlksize |-> 65464, defaultWindowsize |-> 1,
    maxWindowsize |-> 64, defaultTimeout |-> 3, minTimeout |-> 1, maxTimeout |-> 255],
   [defaultBlksize |-> 512, maxBlksize |-> 1024, defaultWindowsize |-> 1,
    maxWindowsize |-> 4, defaultTimeout |-> 3, minTimeout |-> 2, maxTimeout |-> 10]}

SomeOptions ==
  [name : {"blksize", "windowsize"}, value : {NotANumber, 0, 1, 7, 512, 1428, 65535, 70000}]
    \cup [name : {"timeout"}, value : {0, 5, 300}] \cup [name : {"tsize", "other"}, value : {0}]

TakeNegotiation ==
  \E config \in Configs, options \in BoundedSeq(SomeOptions, 2), fileSize \in {None, 0, 700} :
    input' = [kind |-> "negotiation", config |-> config, options |-> options, size |-> fileSize]

TakeBackoff ==
  \E base \in 1 .. 4, exponential \in BOOLEAN, extra \in {0, 3, 250} :
    input' = [kind |-> "backoff", base |-> base, exponential |-> exponential,
              max |-> base + extra]

TakeText ==
  \E data \in BoundedSeq(T!Bytes, MaxText), cut \in 1 .. 3 :
    input' = [kind |-> "text", data |-> data, size |-> cut]

SomeTexts == {<<>>, <<"f">>, <<"..">>, <<"OCTET">>, <<"BLKSIZE">>, <<"notUtf8">>}

\* Requests and OACKs whose texts are any of these, with any last text cut
TakeRequest ==
  \E op \in {1, 6, 7}, texts \in BoundedSeq(SomeTexts, 4) :
    input' = [kind |-> "packet", raw |-> <<op>> \o P!Terminated(texts)]

TakeShortPacket ==
  \E op \in 3 .. 5, number \in {0, 1, 9}, rest \in BoundedSeq({"f", "notUtf8", P!NUL}, 2) :
    \E len \in 0 .. Len(rest) + 2 :
      input' = [kind |-> "packet", raw |-> SubSeq(<<op, number>> \o rest, 1, len)]

RuleSources == [family : {"v4", "v6"}, bits : {<<>>, <<0>>, <<0, 1>>}, readable : BOOLEAN]

Rules ==
  {r \in [action : {"allow", "deny", "other"}, source : RuleSources,
          operations : {<<>>, <<"read">>, <<"all">>, <<"write", "other">>}] :
     r.source.readable \/ (r.action = "allow" /\ r.source.bits = <<>>)}

TakeRules ==
  \E mode \in {"whitelist", "blacklist", "other"}, r1, r2 \in Rules :
    \E family \in {"v4", "v6", "mapped"}, bits \in {<<0, 0>>, <<0, 1>>, <<1, 0>>} :
      input' = [kind |-> "rules", config |-> [mode |-> mode, rules |-> <<r1, r2>>],
                client |-> [family |-> family, bits |-> bits]]

\* Two virtual roots, one alias the beginning of the other, or not
RootLists ==
  {<<>>} \cup {<<[alias |-> a, dir |-> "one"], [alias |-> b, dir |-> "two"]>> :
                 a, b \in {<<"a">>, <<"a", "b">>, <<V!Backslash, "b">>}}

\* No link; a link inside a root; links out of their roots
Disks ==
  {[kind |-> (V!At("main", <<"a">>) :> "dir") @@ (V!At("two", <<"b">>) :> "file"),
    links |-> <<>>],
   [kind |-> (V!At("main", <<"a">>) :> "dir"),
    links |-> (V!At("main", <<"b">>) :> V!At("main", <<"a">>))],
   [kind |-> (V!At("main", <<"a">>) :> "dir") @@ (V!At("out", <<"d">>) :> "dir"),
    links |-> (V!At("main", <<"b">>) :> V!At("out", <<"d">>))
                @@ (V!At("one", <<"a">>) :> V!At("out", <<"d">>))]}

Policies == [follow : BOOLEAN, createDirs : BOOLEAN]

\* Names of four characters, and files two directories deep, also behind a
\* backslash and a slash
Names ==
  {name \in BoundedSeq({"a", "b", "/", V!Backslash}, 4) :
     \A i \in 1 .. Len(name) - 1 : ~(name[i] = "/" /\ name[i + 1] = "/")}
    \cup {<<first, "/", "b", "/", last>> : first \in {"a", "b", V!Backslash}, last \in {"a", "b"}}
    \cup {<<"a", "/", "..">>}

TakeName ==
  \E roots \in RootLists, name \in Names, disk \in Disks, policy \in Policies :
    input' = [kind |-> "name", roots |-> roots, name |-> name, disk |-> disk,
              policy |-> policy]

-----------------------------------------------------------------------------
NoInput == [kind |-> "none"]

\* One part at a time has a choice of initial states, the walk or the limiter.
Walkable == limit = (CHOOSE l \in Limits : TRUE) /\ window = (CHOOSE w \in Windows : TRUE)
Askable  == size = 0 /\ blksize = 1
First    == input = NoInput /\ Walkable /\ Askable

AlgorithmsInit ==
  /\ input = NoInput
  /\ Init /\ LogInit /\ TransferInit /\ TimerInit /\ PoolInit /\ RateInit
  /\ Walkable \/ Askable

Take ==
  /\ \/ TakeNegotiation \/ TakeBackoff \/ TakeText \/ TakeRequest \/ TakeShortPacket
     \/ TakeRules \/ TakeName
  /\ UNCHANGED <<vars, logVars, transferVars, timerVars, poolVars, rateVars>>

Choose(part) == input' = [kind |-> part]

AlgorithmsNext ==
  \/ First /\ Take
  \/ ((input = NoInput /\ Walkable) \/ input.kind = "walk") /\ Choose("walk") /\ Next
       /\ UNCHANGED <<logVars, transferVars, timerVars, poolVars, rateVars>>
  \/ (First \/ input.kind = "log") /\ Choose("log") /\ LogNext
       /\ UNCHANGED <<vars, transferVars, timerVars, poolVars, rateVars>>
  \/ (First \/ input.kind = "transfers") /\ Choose("transfers") /\ TransferNext
       /\ UNCHANGED <<vars, logVars, timerVars, poolVars, rateVars>>
  \/ (First \/ input.kind = "timer") /\ Choose("timer") /\ TimerNext
       /\ UNCHANGED <<vars, logVars, transferVars, poolVars, rateVars>>
  \/ (First \/ input.kind = "pool") /\ Choose("pool") /\ PoolNext
       /\ UNCHANGED <<vars, logVars, transferVars, timerVars, rateVars>>
  \/ ((input = NoInput /\ Askable) \/ input.kind = "rates") /\ Choose("rates") /\ RateNext
       /\ UNCHANGED <<vars, logVars, transferVars, timerVars, poolVars>>

AlgorithmsSpec == AlgorithmsInit /\ [][AlgorithmsNext]_allVars

-----------------------------------------------------------------------------
\* After the OACK, or without one, the client has the block size and the window
\* size the session uses: of these two build_oack leaves out only what the
\* protocol's defaults say anyway.
ClientKnows ==
  input.kind = "negotiation" => SharedView(input.config, input.options, input.size)

\* The OACK names only options of the request, and no size and no timeout is
\* above what the last option of its name asks, nor a size above the
\* configuration's limit (negotiate_options).
GrantsNoMore ==
  input.kind = "negotiation" => OnlyWhatWasAsked(input.config, input.options, input.size)

\* compute_backoff never waits less for a later attempt than for an earlier
\* one, and never longer than max_timeout, for hundreds of attempts.
WaitsGrow ==
  input.kind = "backoff" => PatienceGrows(input.base, input.exponential, input.max, 24)

\* A text downloaded and uploaded in netascii mode is the same text with Unix
\* line ends, however the blocks cut its CR LF pairs in two.
TextRoundTrip == input.kind = "text" => T!TextSurvives(input.data, input.size)

\* The bytes of a netascii download are what a netascii receiver expects.
TextOnTheWire == input.kind = "text" => T!WellFormed(input.data)

\* serialize_packet writes what parse_packet reads, for every packet that can
\* be read at all.
CodecAgrees == input.kind = "packet" => P!Reread(input.raw)

\* A request cut short, inside its file name, its mode or an option, is never
\* taken for a request of another file or with another option.
CutRequestIsNoOther ==
  input.kind = "packet" /\ input.raw # <<>> /\ input.raw[1] \in {1, 2} => P!CutShort(input.raw)

\* The access list answers as its text reads.
ListIsRead ==
  input.kind = "rules" => \A op \in A!Operations : A!ReadAsList(input.config, input.client, op)

\* The hash map's order of the virtual roots decides nothing.
RootsInAnyOrder == input.kind = "name" => V!OrderIrrelevant(input.roots, "main", input.name)

\* An uploaded file can be downloaded under the name it was uploaded with, and
\* lies below the root that was asked, unless its directory was created
\* unchecked.
UploadReadsBack ==
  input.kind = "name" => V!ReadsBack(input.disk, input.roots, "main", input.policy, input.name)

\* A receiver that takes a file block by block gets all of it, in the blocks
\* the closed forms say, and knows every block by its 16-bit number.
BlocksAddUp == EndsWithShortBlock /\ PayloadsAddUp /\ RecoversBlock

\* What one end sends the other end reads as it was meant: options, texts,
\* packets.
PeersAgree ==
  ClientKnows /\ TextRoundTrip /\ TextOnTheWire /\ CodecAgrees /\ CutRequestIsNoOther

\* What the configuration limits stays within its limits, and nothing else is
\* limited: sizes, waits, rates, buffers.
LimitsAreKept ==
  /\ GrantsNoMore /\ WaitsGrow /\ TimerIsKept
  /\ NoBurst /\ NeverPunished /\ CleanupInvisible
  /\ PoolIsSound

\* Who may do what to which file depends on what the configuration says, in
\* the order in which it says it, and on nothing else.
RequestsAreJudged == ListIsRead /\ RootsInAnyOrder /\ UploadReadsBack

\* The records of what happened are true and in order, through rotation,
\* crashes and restarts, and nothing else is missing than what the parts name.
LogsAreKept ==
  KeepsTheEnd /\ InOrder /\ TabShowsTheEnd /\ HistoryIsTrue /\ OnlyGluedAreLost
=============================================================================
