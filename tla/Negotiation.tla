----------------------------- MODULE Negotiation -----------------------------
(***************************************************************************)
(* Option negotiation and retry waits of core/session/mod.rs.  A request   *)
(* carries a sequence of options [name, value]; a value that is no number  *)
(* is the integer NotANumber.  config is a record with the fields of       *)
(* ProtocolConfig; durations are in seconds.                               *)
(***************************************************************************)
EXTENDS Integers, Sequences

NotANumber == -1
None       == -1       \* Option::None for sizes

U8  == 255             \* largest u8 and u16: larger numbers do not parse
U16 == 65535

AtLeast(v, low)  == IF v < low THEN low ELSE v
AtMost(v, high)  == IF v > high THEN high ELSE v
Parses(v, width) == v \in 0 .. width

-----------------------------------------------------------------------------
\* One round of the loop over the options of the request
Grant(config, fileSize, params, opt) ==
  CASE opt.name = "blksize" /\ Parses(opt.value, U16) ->
         [params EXCEPT !.blksize = AtMost(AtLeast(opt.value, 8), config.maxBlksize),
                        !.hasOptions = TRUE]
    [] opt.name = "windowsize" /\ Parses(opt.value, U16) ->
         [params EXCEPT !.windowsize = AtMost(AtLeast(opt.value, 1), config.maxWindowsize),
                        !.hasOptions = TRUE]
    [] opt.name = "timeout" /\ Parses(opt.value, U8) ->
         [params EXCEPT !.timeout = AtMost(AtLeast(opt.value, config.minTimeout),
                                           config.maxTimeout),
                        !.hasOptions = TRUE]
    [] opt.name = "tsize" /\ fileSize # None ->
         [params EXCEPT !.tsize = fileSize, !.hasOptions = TRUE]
    [] OTHER -> params

Unasked(config) ==
  [blksize    |-> config.defaultBlksize,
   windowsize |-> config.defaultWindowsize,
   timeout    |-> config.defaultTimeout,
   tsize      |-> None,
   hasOptions |-> FALSE]

\* negotiate_options: granted[n] is what stands after the first n options.  A
\* write request passes no file size.
Negotiate(config, options, fileSize) ==
  LET granted[n \in Nat] ==
        IF n = 0 THEN Unasked(config)
                 ELSE Grant(config, fileSize, granted[n - 1], options[n])
  IN  granted[Len(options)]

\* build_oack: what equals the protocol's default is left out, and the
\* timeout is never confirmed
BuildOack(params) ==
  (IF params.blksize # 512 THEN <<[name |-> "blksize", value |-> params.blksize]>> ELSE <<>>)
  \o (IF params.windowsize # 1
      THEN <<[name |-> "windowsize", value |-> params.windowsize]>> ELSE <<>>)
  \o (IF params.tsize # None THEN <<[name |-> "tsize", value |-> params.tsize]>> ELSE <<>>)

-----------------------------------------------------------------------------
\* What a client takes the value of an option to be after the server's
\* answer: the OACK's value if it names the option, else the protocol's
\* default.  Without an OACK every option has its default.
Deduced(oack, name, default) ==
  LET named == {i \in DOMAIN oack : oack[i].name = name}
  IN  IF named = {} THEN default ELSE oack[CHOOSE i \in named : TRUE].value

\* The two ends agree on the sizes, which decide what a block is and when one
\* is acknowledged.  They need not agree on the timeout: the server uses the
\* one that was asked for and confirms it to nobody.
SharedView(config, options, fileSize) ==
  LET params == Negotiate(config, options, fileSize)
      oack   == IF params.hasOptions THEN BuildOack(params) ELSE <<>>
  IN  /\ params.blksize = Deduced(oack, "blksize", 512)
      /\ params.windowsize = Deduced(oack, "windowsize", 1)

IsOption(opt, name, width) == opt.name = name /\ Parses(opt.value, width)

\* Of the first n options the last with that name and a value that parses
LastAsked(options, n, name, width) ==
  {i \in 1 .. n : /\ IsOption(options[i], name, width)
                  /\ \A j \in 1 .. n : j > i => ~IsOption(options[j], name, width)}

\* Nothing above what the last of the first n options of a name asks, or above
\* the least the server grants
NoMore(config, options, params, n) ==
  /\ \A i \in LastAsked(options, n, "blksize", U16) :
       params.blksize <= AtLeast(options[i].value, 8)
  /\ \A i \in LastAsked(options, n, "windowsize", U16) :
       params.windowsize <= AtLeast(options[i].value, 1)
  /\ \A i \in LastAsked(options, n, "timeout", U8) :
       params.timeout <= AtLeast(options[i].value, config.minTimeout)

\* Every option of the OACK was asked for; no size and no timeout is above what
\* was asked last, nor a size above the configuration's limit.
OnlyWhatWasAsked(config, options, fileSize) ==
  LET params == Negotiate(config, options, fileSize)
  IN  /\ \A i \in DOMAIN BuildOack(params) :
           \E j \in DOMAIN options : options[j].name = BuildOack(params)[i].name
      /\ NoMore(config, options, params, Len(options))
      /\ params.blksize <= config.maxBlksize
      /\ params.windowsize <= config.maxWindowsize

-----------------------------------------------------------------------------
\* compute_backoff: the wait before the next retransmission
Backoff(base, attempt, exponential, max) ==
  IF ~exponential \/ attempt = 0 THEN base
  ELSE AtMost(base * 2 ^ AtMost(attempt, 8), max)

\* The waits of successive attempts never shrink and stay between the
\* negotiated timeout and the longest one.
PatienceGrows(base, exponential, max, attempts) ==
  \A a \in 0 .. attempts :
    /\ Backoff(base, a, exponential, max) \in base .. max
    /\ Backoff(base, a, exponential, max) <= Backoff(base, a + 1, exponential, max)
=============================================================================
