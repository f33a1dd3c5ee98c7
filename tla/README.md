# TLA+ models of the RTKLIB common library of gnss-sdr

This directory holds TLA+ specifications of the numerical and temporal core
that gnss-sdr takes from RTKLIB, `src/src/algorithms/libs/rtklib/rtklib_rtkcmn.cc`.
Each one comes with the TLC configurations that check it. `PROJECT.json` lists
the following:

- every component, whether it is modelled or not;
- every run and the properties it checks;
- a mutant for each property of a passing run;
- the source lines each definition translates;
- the findings;
- the hazards in the code.

## 1. The system

`rtklib_rtkcmn.cc` is a library of about 5,000 lines, used by the PVT
(position/velocity/time) block of the receiver. Its parts, leaf first:

| part | state | operations | interacts with |
|---|---|---|---|
| TimeSystem | none, except the global `leaps[MAXLEAPS+1][7]` table | `epoch2time`, `time2epoch`, `gpst2time`/`time2gpst` (also GST, BDT), `timeadd`, `timediff`, `timediffweekcrossover`, `gpst2utc`, `utc2gpst`, `read_leaps*`, `str2time`, `time2str`, `adjgpsweek` | every other part stamps instants with it |
| Leap-second table | `leaps[][]`, process-wide, replaced in place by `read_leaps` | `read_leaps`, `read_leaps_text`, `read_leaps_usno`, the table walks | `utc2gpst`, which is called by `eci2ecef`, `geterp` and `adjgpsweek` |
| Earth orientation | the statics `tutc_`, `U_[9]`, `gmst_` of `eci2ecef` | `eci2ecef`, `utc2gmst`, `geterp`, `sunmoonpos`, `windupcorr` | `sunmoonpos` calls `eci2ecef`, and the tide and wind-up corrections call `sunmoonpos` |
| EstimationEngine | the caller's `x[n]`, `P[n*n]` | `filter` (mask, compaction, `filter_`, scatter), `smoother` | the linear-algebra layer |
| LinearAlgebraCore | none | `mat`, `zeros`, `eye`, `matmul`, `matinv`, `solve`, `lsq` | delegates to LAPACK/armadillo |
| Geodesy / atmosphere | none | `ecef2pos`, `satazel`, `dops`, `ionmodel`, `tropmodel`, ... | Earth orientation |
| Sorting of nav/obs data | the caller's `nav_t`, `obs_t` arrays | `uniqeph`, `uniqgeph`, `uniqseph`, `uniqnav`, `sortobs`, `csmooth` | TimeSystem (comparators) |
| Signal codes, satellite numbers | the mutable `codepris` table | `satno`, `satsys`, `satid2no`, `satno2id`, `obs2code`, `code2obs`, `setcodepri`, `getcodepri`, `satexclude`, `testsnr` | everything that indexes by satellite |
| BitstreamCodec | none | `getbitu`, `getbits`, `setbitu`, `setbits`, CRC-32/24Q/16, `decode_word` | the navigation message decoders |
| Paths and antenna lookup | none; the working directory and the caller's `pcvs_t` | `repstr`, `reppath`, `reppaths`, `expath`, `searchpcv` | TimeSystem (`time2epoch`, `time2gpst`, `timediff`); the file readers fill `pcvs_t` |

Two network links of the receiver are also under `src/`. The spec calls them
external collaborators, but they have control worth checking:

| part | state | operations | interacts with |
|---|---|---|---|
| `Tcp_Communication` (`tcp_communication.cc`) | `tcp_socket_`; the caller's `Tcp_Packet_Data` | `listen_tcp_connection`, `send_receive_tcp_packet_galileo_e1`/`_gps_l1_ca`, `close_tcp_connection` | a tracking channel and an external loop-filter server, one blocking exchange per call |
| `Gnss_Synchro_Udp_Source` (monitoring client) | `channels` (a `std::map`), `stocks`, `monitor_pvt` | `read_gnss_synchro`, `populate_channels`, `print_table`, `read_monitor_pvt`, `print_variable_names_column`, `print_values_column` | the receiver's monitor blocks, which send it datagrams |

The generated ASN.1 SUPL/RRLP descriptors are outside the spec's scope.

### Hard behaviours

- **Shared mutable state without locks.** `eci2ecef` keeps a one-slot cache in
  function statics, and the leap-second table is a global that `read_leaps`
  overwrites in place. Neither is documented as thread-safe. In this
  repository `eci2ecef` is reached only through `sunmoonpos` from
  `windupcorr`, on one thread and always with zero erp values, so the models
  check the cache for one caller.
- **Narrow integer types.** `time_t` arithmetic, `int` casts of
  seconds-of-week and weeks, and `char` storage of years and leap offsets in
  `read_leaps_usno`.
- **Truncation against floor.** C's `/`, `%` and `static_cast<int>` truncate
  toward zero. `timeadd` uses `floor`. The conversions must agree at zero and
  for negative values.
- **Compaction and scatter.** `filter` gathers the states in use into small
  buffers through an index array and writes the results back, on success and
  on failure alike.
- **Comparators that are not orders.** `cmpobs` compares times with a
  tolerance before `qsort`. De-duplication only removes adjacent duplicates.
- **Streams and datagrams.** `write_some`/`read_some` may move part of a
  buffer, and their counts are ignored. UDP datagrams may be lost,
  duplicated, reordered, or cut at the 1500-byte receive buffer.

### Properties each part needs

- TimeSystem: conversions are exact inverses over their valid range, and the
  sub-second part stays in [0,1).
- Leap seconds: every table walk stops at the sentinel inside the array,
  `utc2gpst` and `gpst2utc` are inverse, and the offset applied is the one
  the loaded file states.
- `eci2ecef`: the matrix returned was computed for the instant and the erp
  values asked for.
- `filter`: states outside the mask are untouched, and an error leaves x and
  P as they were.
- Sorting: the output is sorted and has no duplicates.
- Codec: `set*` then `get*` gives back the value, and parity and CRC match
  their reference definitions.
- TCP: a call that returns normally stores the answer to its own request,
  and a call waiting for an answer gets one.
- UDP: the table shows each channel's newest record, and the values column
  never mixes two datagrams.

## 2. Modules

Components are operators or small state machines. The `MC_*` modules give them
inputs and callers for TLC. Three composed modules (`MC_Time`,
`MC_ObsTools`, `MC_Solution`) put several independent callers in one state
space. `MC_Solution` includes `MC_Codec`, and `MC_ObsTools` includes
`MC_Link` and `MC_Time`, through `INSTANCE`. `MC_Link` is also checked alone, for the
`tcp_short` run. A variable `kind`, chosen in `Init`, says which caller a
behaviour belongs to, and the other callers' variables stay at their idle
values. This lets one run check several components.

| module | models | state | actions / operators |
|---|---|---|---|
| `GTime` | gtime_t and its conversions | none | `Epoch2Time`, `Time2Epoch`, `WeekSec2Time` (`Gpst2Time`, `Gst2Time`, `Bdt2Time`), `Time2WeekSec`, `TimeAdd`, `TimeDiff`, `TimeDiffWeekCrossover`, `Gpst2Bdt`, `Bdt2Gpst` |
| `TimeFormat` | `time2str`, `time2sec`, `time2doy`, `adjgpsweek` | none | `Time2Str`, `Time2Sec`, `Time2Doy`, `AdjGpsWeek` |
| `StrConv` | `str2num`, `str2time` | none | `ExpLetter`, `ScanNum`, `Str2num`, `YearWindow`, `Str2time` |
| `LeapSeconds` | `leaps[][]`, `read_leaps*`, `utc2gpst`, `gpst2utc` | `leaps`, `charSigned` (build choice), `expected` (ghost) | `ReadLeaps`, `ReadLeapsFails`, RECURSIVE walks `Utc2GpstFrom`, `Gpst2UtcFrom` |
| `RatArith` | the double arithmetic of the numerical routines, on exact rationals | none | `Q`, `QAdd`, `QSub`, `QMul`, `QDiv`, `QSign`, ... |
| `ErpInterp` | `geterp` | none | `ErpX`, `Extrap`, RECURSIVE `Bisect`, `Interp`, `Geterp` |
| `Dms` | `deg2dms`, `dms2deg` | none | `RoundUnit`, `Deg2Dms`, `Dms2Deg` |
| `MC_GTime`, `MC_LeapSeconds` | a caller stamping and advancing instants; reloads of leap files | `now`, `steps`; the `LeapSeconds` variables | `SetEpoch`, `SetGpsWeek`, ..., `Advance`; `ReadLeaps` |
| `PathRep` | `repstr`, `reppath`, `reppaths`, `expath` | none | `FindFrom`, RECURSIVE `ReplaceFrom`, `Repstr`, `TimeValues` (the `sprintf` texts), `RepAll`, `Reppath`, `Tint`, `ReppathsFrom`, `Reppaths`; for `expath`, `ToLower`, `StrLess` (strcmp), `Tokens` (strtok), RECURSIVE `MatchFrom`, `Matches`, `SortPaths`, `Expath` |
| `PcvSearch` | `searchpcv` | none | `PcvStartsBy`, `PcvEndsAfter` (the `ts`/`te` tests), `SearchRcv` (the receiver branch), `Searchpcv` |
| `TimeInputs` | the inputs of the time callers: epochs, weeks, steps, leap files | none | constants only |
| `MC_Time` | all of the above | the above, plus `call`, `cpu`, `ecall`, `dcall`, `scall`, `pcall` | `Time2StrCall`, `GeterpCall`, `Deg2DmsCall`, `Str2timeCall`, `Str2numCall`, `ReppathCall`, `ReppathsCall`, `ExpathCall`, `SearchpcvCall` |
| `EciCache`, `MC_EciCache` | the static cache of `eci2ecef` (the module is written for a set of callers; the runs use one) | `tutc_`, `U_`, `gmst_`, and per thread `pc`, `arg`, `tpn`, `result`, `calls` | `Call`, `Check`, `SetKey`, `Precess`, `SetGmst`, `SetRot`, `CopyOut` |
| `KalmanFilter`, `MC_KalmanFilter` | `filter`/`filter_`, and the caller's `initx` | `x`, `P` (column-major), `info`, `active` | `Filter` (the whole call), `InitX` |
| `Smoother` | `smoother` and the `matinv` it calls, for 2 states | none | `Matinv`, `Smoother` |
| `MC_Solution` | eci cache, filter and smoother callers | the above, plus `smo` | `SmootherCall` |
| `BitCodec` | `getbitu`/`getbits`/`setbitu`/`setbits`, `rtk_crc24q`, `rtk_crc16`, `decode_word` | none | one operator each |
| `MC_BitFields`, `MC_Crc`, `MC_NavWord`, `MC_Codec` | a frame built field by field, a frame CRC'd byte by byte, a stream of LNAV words | `buff`, `fields` (ghost), `writes`, `msg`, `src`, `word` | `WriteU`, `WriteS`, `AppendByte`, `Receive` |
| `SatNo` | `satno`, `satsys`, `satid2no`, `satno2id` | none | one operator each |
| `SatExclude` | `satexclude`, `testsnr` | none | `Unhealthy`, `ExsatsAt`, `Satexclude`, `MinSnr`, `Testsnr` |
| `CodePri`, `MC_CodePri` | `obscodes`/`code2obs`/`obs2code`, the global `codepris` with `setcodepri`/`getcodepri` | `codepris`, `calls` | `SetCodePri`, `Call` |
| `CodePriAbs` | what the comments of `setcodepri`/`getcodepri` promise: per system and frequency a list of at most 14 codes | `pris` | `SetPri` |
| `ObsSort`, `MC_ObsSort` | `uniqeph`/`uniqgeph`/`uniqseph`/`uniqnav`, `sortobs` | `eph`, `geph`, `seph`, `nmax`, `lam`, `obs`, `nepoch` | `Uniqnav`, `Sortobs` |
| `Csmooth` | `csmooth` | none | `Skipped`, `CsStep`, `Csmooth` (a FoldLeft of `CsStep` over `obs->data`) |
| `MC_ObsTools` | code priorities, the PRN scan of a decoder, nav/obs sorting, smoothing and the SNR mask, the links of `MC_Link`, and the time callers of `MC_Time` | `codepris`, `calls`, `probe`, the sort variables, `cs`, `snrc`, the link variables, the `MC_Time` variables | `NextPrn`, `CsmoothCall`, `TestsnrCall`, `MC_Link`'s `Next`, `MC_Time`'s `TimeNext` |
| `TcpComm` | `Tcp_Communication`, and the loop-filter server as its environment | `signal`, `tpc` (where the channel is), `connected`, `sent` (last control id), `tcpData`, the streams `c2s`/`s2c`, `served`, `callOk` (ghost) | `ListenTcpConnection`, `SendGalileoE1`/`SendGpsL1Ca` (the write half, `WriteSome`), `ReceiveGalileoE1`/`ReceiveGpsL1Ca` (the read half, `ReadSome`), `CinReturns`, `CloseTcpConnection`, `Serve` |
| `UdpMonitor` | `Gnss_Synchro_Udp_Source`, the sender and a lossy network | `gnet`/`pnet` (datagrams in flight), `gsent`/`psent`, `channels`, `heard` (ghost: what was parsed), `monitorPvt`, `shown` (the values column) | `SendSynchro`, `SendPvt`, `SynchroNetwork`/`PvtNetwork` (loss, duplication), `PrintTable` (with `Parses`, `PopulateChannels`), `PrintValuesColumn` (with `ReadMonitorPvt`), `PrintVariableNamesColumn` |
| `MC_Link` | a tracking channel on TCP, or the monitoring client's table or values column | `kind` and the variables above | `Next`, with terminal stutters |

How state and actions correspond to the code:

- **Numbers.** TLC's integers are 32 bits.
  - A `time_t` is `[day, sod]`. The double `sec` of a gtime_t is a
    numerator over `FRAC`, a power of two, so it is exact as in IEEE.
  - `CDiv` and `CMod` are C's truncating `/` and `%`. `\div` is `floor`.
  - The numerical routines (`geterp`, `deg2dms`, `smoother`, `csmooth`,
    `testsnr`) run on exact rationals of `RatArith`, kept in lowest terms.
    Where rounding of a double matters, as at a rounding tie in `deg2dms`,
    every outcome it can produce is a nondeterministic choice.
- **Whole calls.** Each library function is one operator, or one action of
  its caller, that does everything the function does. This includes the
  early returns, the error paths and the trailing updates (for example
  `uniqnav`'s `lam` recomputation after the three sorts).
  - `eci2ecef` is the exception. It is split into its steps, the order in
    which it updates `tutc_`, `gmst_` and `U_`.
  - `qsort` yields one of the sorted permutations for a comparator that is a
    total preorder, and any permutation otherwise, which is undefined
    behaviour.
- **Undefined behaviour** is a nondeterministic outcome. Examples are the
  `Pp_` that `filter_` never wrote, an out-of-bounds `exsats[sat-1]` in
  `satexclude`, and a failed `realloc` in `uniqgeph`.
- **Strings** are abstracted to what is parsed out of them.
  - `str2time` sees the numbers `sscanf` meets.
  - `str2num` sees one number field with its exponent letter.
  - A path of `reppath` is a sequence of one-character strings, and each
    `sprintf` into `rep[]` is the digits it prints. Paths and ids are kept
    whole because the order of the replacements is what the properties see.
  - A `codepris` entry is the characters before its first NUL. An entry of
    16 characters has no NUL, and a read runs on into the next entry.
- **Spec-modelled code.** `initx` is in the positioning code, which is not
  in this repository. It is modelled from the spec and marked
  `spec_modelled` in the map.
- **Links.** A TCP call is two actions, because the server runs between
  the write and the read. A float is a tagged value: a control id, a request
  variable, variable j of reply n, or the zero of an unfilled `readbuf`.
  `ShortIO` lets `write_some`/`read_some` move any nonempty part of the
  buffer. Otherwise they move all of it, as over a loopback connection. The
  `std::cin` wait in the catch block is the state `caught`. It may end
  (`CinReturns`), as it does at once when stdin is closed. A datagram cut at
  1500 bytes fails to parse, or parses to the records before the cut. The
  binary archive overwrites the fields before the cut, then throws.
- **Refinement.** `MC_CodePri` shows the `codepris` table implements
  `CodePriAbs` (`INSTANCE ... WITH` the lists read out of the table,
  property `CodePriRefines`).

## 3. Runs

| run | cfg | expect | what it shows |
|---|---|---|---|
| gtime_negtow | `MC_Time_negtow.cfg` | violation | `gpst2time(0, -0.25)` gives `sec = -0.25`, against the [0,1) of the spec |
| leaps_usno | `MC_Time_usno.cfg` | violation | after a USNO `leapsec.dat`, `utc2gpst` no longer applies the file's offsets: the years are stored in `char` |
| time_sixty | `MC_Time_sixty.cfg` | violation | `time2str` prints 23:59:59.5 with no decimals as 23:59:60 |
| reppath_doc | `MC_Time_path.cfg` | violation | `reppath` replaces `%r` before the time keywords and rescans the result: `%h%r` with rover `ab` at 19:20 gives `18b` (through `%ha`), not the documented `19ab` |
| solution | `MC_Solution.cfg` | pass | The `eci2ecef` cache returns results for a nearby instant to a single caller. `filter` never touches masked states and keeps x on error. `smoother` combines or keeps its outputs. Bit fields read back. The CRC tables equal bit-serial division. `decode_word` accepts every valid word and rejects every single bit flip. |
| kalman_singular | `MC_KalmanFilter_singular.cfg` | violation | on a singular innovation covariance, P receives the never-written `Pp_` |
| kalman_specmask | `MC_KalmanFilter_mask.cfg` | violation | the code freezes a state when x=0 *or* P≤0, the spec only when both hold |
| obs_tools | `MC_ObsTools.cfg` | pass | `setcodepri` implements `CodePriAbs`. The satellite-number round trips hold. `uniqnav` and `sortobs` sort and keep their keys. `csmooth` is unbiased over the arcs it tracks (`CsmoothUnbiased`). `testsnr` is monotone under a falling mask. With in-order delivery and datagrams lost, duplicated or cut, the monitoring table shows each channel's newest parsed valid record (`ChannelShowsLatest`), and the values column is never torn (`ValuesNeverTorn`). The time callers: the calendar conversions and `timeadd` round-trip, leap-table reloads keep `utc2gpst`/`gpst2utc` inverse, `time2str` prints the instant, `adjgpsweek` picks the nearest week, `geterp` lies on the table's segments, `deg2dms` reads back through `dms2deg`, `str2time` reads RINEX epochs back, and `reppaths` returns the path of every 900 s instant of its interval unless it stops at `nmax` (`ReppathsCovers`). For every readdir order, `expath` returns in strcmp order exactly `min(nmax, #matches)` of the names the pattern matches as a glob (`ExpathGlobs`). `searchpcv` returns a satellite entry valid at the time whenever one exists, and for a receiver prefers an entry holding every word of the type over one starting with the antenna name (`PcvAsQueried`). `timediffweekcrossover` moves `t - toe` within 1.5 weeks by whole weeks into [-302400, 302400] s (`CrossoverNearest`). |
| codepri_long | `MC_ObsTools_long.cfg` | violation | `setcodepri` accepts 15 and 16 codes into a 16-byte entry, breaking the promised ranking |
| tcp_short | `MC_Link_short.cfg` | violation | a `read_some` that returns only the control id stores the zeros of `readbuf` as the loop filter's outputs |
| week_overflow | `MC_Time_week.cfg` | violation | `time2gpst` computes `w * 604800` in `int`; from week 3551 (2048) the product wraps, the time of week is 2^32 s too large, and `gpst2time` resets it to 0, so 2099-12-31 comes back as the start of its week (`WeekRoundTrip`) |
| csmooth_lli | `MC_ObsTools_lli.cfg` | violation | `csmooth` skips a record with P or L equal to 0.0 before it looks at its LLI, so the slip does not restart the Hatch filter and the next record continues the arc (`CsmoothWarmup`) |

`week_overflow` treats the overflow, undefined behaviour, as its outcomes
on a two's-complement build: the product is exact or wraps once by 2^32
(`ProductWraps`). With only the exact outcome the same run passes, so the
violation comes from the overflow alone. `csmooth_lli` defines an arc as
restarting at every LLI (`LliArc`), as the reset at line 4818 intends.

`satexclude`, `getcodepri` and `str2num` are modelled, but no property is about them alone:
each one's outcome is a table lookup or a field scan, and a property over it would
restate the code. The table `getcodepri` reads is what `CodePriRefines`
checks. The TCP exchanges of `MC_Link` are checked only by `tcp_short`.

`PROJECT.json` gives every mutant with the definition it breaks. Every
property of a passing run has one: a plausible bug in the code the property
depends on, which TLC detects. Examples:
- `timeadd` without its floor renormalisation;
- a one-sided cache test;
- `uniqeph` ignoring `iode`;
- `csmooth` swapping the carrier difference;
- `testsnr` with its weights swapped;
- the `str2time` year window off by one;
- `reppaths` stepping from `ts` instead of the start of its step;
- `expath`'s match loop not stepping past the piece it found;
- `searchpcv` rejecting an entry whose `ts` equals the time;
- `timediffweekcrossover` folding the positive side only.

Findings confirmed with one-off TLC checks, with no run of their own:
- `deg2dms(-0.5)` gives `{-0.0, 30, 0}`, which `dms2deg` reads as +0.5.
- `timediffweekcrossover` returns exactly -302400 s for an instant half a
  week before the reference time, outside the spec's (-302400, 302400]. The
  IS-GPS-200 footnote the code cites allows that value.

Both are listed as hazards.

### Bounds and why they are enough

- **Time.**
  - `FRAC = 4` (quarter seconds) tells truncation from floor on negative
    values.
  - The epochs are the ends of 1970..2099, the leap days of 1972 and 2000,
    and the three week-zero epochs.
  - Weeks 0, 1, 1023 and 2047 cover the 10-bit rollover. `week_overflow`
    adds instants up to 2099-12-31, past week 3551 of every system.
  - Up to 3 `timeadd` steps of ±0.25 s, 1 s, ±4 days and 4 weeks make every
    carry and borrow happen.
  - `MAXLEAPS = 18`, with one text file a row longer than the table.
  - The `time2str` decimals are -1, 0..3, 12 and 13, so both clamps are
    reached.
  - The `geterp` tables have 0 to 4 rows, and the instants cover both
    extrapolations, every bisection path and a node.
  - The `deg2dms` angles include rounding ties and carries into minutes and
    degrees.
  - `str2time` gets epochs at both ends of the year window with 2- and
    4-digit years, starts -1, 0, 60, 81 and 300 on an 80-character line, and
    fields cut short.
  - `reppath` gets every path of up to two pieces among `%h`, `%ha`, `%H`,
    `%r`, `%b`, `%Y`, `%t` and a letter, at 19:20 and 23:50 GPST (the
    last hour, the 3-hour code and the year end differ) and at time 0, with
    ids empty, one letter, or `ab` (whose first letter completes `%h`).
  - `reppaths` gets `%h`, `%ha`, `%M`, `%D` and `%n%r` with `nmax` 2 and 12
    over a 50-minute interval and one that crosses midnight and the end of a
    GPS week, so the floor of the start, each step and the `nmax` stop
    happen.
  - `expath` reads a directory of `a.o`, `A.o`, `B.o`, `ab` and `.a` in
    each of its 120 orders, with `nmax` 2 and 8. The patterns include
    leading, trailing and inner `*`, upper case, a name that is a prefix of
    another (`ab`, `ab*b`) and `*O*o`, where a piece must be found after
    the previous one.
  - `searchpcv` has six entries: satellite 1 valid in 2020 and from
    2021-06-01 (a gap), satellite 2 from 2021-01-01, and receivers
    `ABC N`, `AB N` and `AB S`. It is asked at instants before, at and
    between the bounds, and for types with a radome, without one, with
    a name that is only a prefix (`AB X`), leading blanks, and no word.
  - `timediffweekcrossover` gets, for two reference times, every offset
    that is a multiple of a half week up to 1.5 weeks, and a quarter
    second either side of each.
- **EciCache.** Instants 100, 101 and 103, in 5 ms units, give a hit and a
  miss either way. Two erp sets, and one caller.
- **KalmanFilter.** Three states, so a frozen state can sit between two
  active ones. The `smoother` matrices are 2×2: positive definite, singular
  and indefinite.
- **Codec.** A 3-byte buffer, fields of 1, 6 and 12 bits at positions that
  straddle bytes, and CRC messages of up to two bytes. All single bit flips
  of a word are tried.
- **ObsTools.**
  - Priority strings have 0, 3 and 14 codes. The violation run adds 15 and
    16.
  - The PRN scan runs -1..222 for every system, past MAXSAT = 221 of the
    configured ranges.
  - Nav lists have up to 3 records and obs data up to 4.
  - `csmooth` gets up to 3 records with `ns` = 1..3. These include LLI
    flags, zero P or L, a second satellite and a receiver out of range.
  - `testsnr` runs from -5° to 95° in steps of 0.5° and 3.5°. The masks
    cover both bases, frequencies in and out of range, falling and rising
    masks, and SNRs between the node values.

- **Links.**
  - Up to 3 TCP exchanges, with requests of 5 (Galileo) and 4 (GPS) floats
    and replies of 4. The sizes are set in tracking headers outside this
    directory. The accept may fail.
  - The violation run uses 3-float requests and 2 exchanges. The first short
    read appears at depth 5.
  - The monitoring client gets 3 datagrams of 3 channels. Every subset of
    channels can be valid, and a cut can keep 1 or 2 records. Or it gets
    3 datagrams of a 2-field PVT, cut after 0 or 1 fields. With 3 datagrams,
    a loss, a duplicate and a cut all fit in one behaviour.

### Fairness

No run checks a liveness property. `MC_Link`'s specification still
carries weak fairness of `Serve` (the loop-filter server keeps running) and
`ReadSome` (a `read_some` with data waiting returns), the assumptions a
liveness property of the TCP calls would need; the safety properties do
not depend on it.

No other action is fair:
- the user may never answer the `std::cin` wait;
- the network owes nothing;
- the channel need not make another call.

The library functions of the other modules return after a bounded number of
steps and wait for nothing. Their callers end in an explicit terminal
stutter, as do a closed TCP channel and a monitoring client that took every
datagram. So deadlock checking is on everywhere, except in `tcp_short`.
There a cut request leaves the channel blocked in `read_some` for good,
which the real program also does.

## 4. Not modelled, and why

- **LinearAlgebraCore** (`matmul`, `matinv` for n > 2, `lsq`, `solve`) is
  floating-point LAPACK code. `KalmanFilter` keeps only whether `matinv`
  succeeds.
- **Geodesy and atmosphere** (`ecef2pos`, `satazel`, `dops`, `ionmodel`,
  `tropmodel`, `sunmoonpos`, `windupcorr`, ...) are continuous formulas.
- **File readers** (`readpcv`, `readantex`, `readerp`, `readblq`, `readnav`,
  ...), tracing, shell commands and `createdir` are I/O. `expath` is
  modelled except for `opendir` failing.
- **`timeget`/`timeset`** read the system clock. `timeget` is an input
  (`cpu`) of `adjgpsweek`. Neither applies the `timeoffset_` it keeps, so
  there is no state to model beyond the clock.
- **`read_leaps`** (the dispatcher between the two readers) has no caller in
  the repository; `ReadLeaps` models both readers it chooses between.
- **`rtk_crc32`** has a 32-bit register, which does not fit TLC's integers.
- **The ASN.1 sources** are generated code, excluded by the spec.
- **The TCP loop-filter server and the monitor's senders** are not in the
  repository. They are environment actions that answer or send the way
  the client code expects.
- **Reordered UDP delivery** has no run. `ChannelShowsLatest` fails after
  two reordered datagrams, since `populate_channels` keeps no sequence
  number. This is listed as a hazard.

## 5. Plan

- An atomic leap-table replacement, with readers concurrent to
  `read_leaps`' row-by-row rewrite, shown as a refinement for one thread.
- A violation run for the `deg2dms` -0.0 sign, if a run slot is freed.
- A violation run for reordered monitoring datagrams, or for the
  half-week boundary of `timediffweekcrossover`, if a run slot is freed.
- The control paths of `dops` (satellite count, the `matinv` outcome).
