------------------------- MODULE ExternalSymbolizer -------------------------
(***************************************************************************)
(* Symbolization of the addresses in a report by another process           *)
(* (lib/sanitizer_common/sanitizer_symbolizer.cc, _linux.cc): a request is *)
(* written to its stdin, the answer read from its stdout in pieces, and a  *)
(* process that is gone is started again, kMaxTimesRestarted times.  A     *)
(* write to one that is gone raises SIGPIPE: the run-time does nothing     *)
(* about that signal, so it ends the program, unless the program ignores   *)
(* or handles it.  Text is a sequence of words and of the delimiters "nl"  *)
(* and ":".  Calls come one at a time.                                     *)
(***************************************************************************)
EXTENDS Integers, Sequences, FiniteSets, SequencesExt, FiniteSetsExt

CONSTANTS
  Addresses,
  Module,               \* address -> module name, or "" if none holds it
  Answer,               \* address -> the text the symbolizer has for it
  MaxFrames,            \* the caller's room
  kMaxBufferSize, kMaxTimesRestarted,
  MaxCalls              \* bound on calls

VARIABLES
  step,      \* where the call is: "idle", "write", "read", "restart"; or "killed"
  addr,      \* its argument
  symbolizer,           \* "ready", or "lost": external_symbolizer_ is 0
  times_restarted,
  sigpipe,   \* what the program does about it: "default"; "ignored", or a handler
  child,     \* [alive, asked, out]: the process, its input and its output
  buffer,
  returned   \* the last call's answer, its address, and how many calls there were

vars == <<step, addr, symbolizer, times_restarted, sigpipe, child, buffer, returned>>

Fresh == [alive |-> TRUE, asked |-> << >>, out |-> << >>]

-----------------------------------------------------------------------------
(* Reading the answer.                                                     *)

\* [token, rest]: up to the first delimiter, which is skipped.
ExtractToken(text, delims) ==
  LET at == {i \in DOMAIN text : text[i] \in delims}
      n == IF at = {} THEN Len(text) + 1 ELSE Min(at)
  IN [token |-> SubSeq(text, 1, n - 1), rest |-> SubSeq(text, n + 1, Len(text))]

Known(word) == IF word = <<"??">> THEN << >> ELSE word

\* function, then file:line:column.
ParseFrame(function_name, location) ==
  LET file == ExtractToken(location, {":"})
      line == ExtractToken(file.rest, {":"})
  IN [function |-> Known(function_name), file |-> Known(file.token),
      line |-> line.token, column |-> line.rest]
NoFrame == [function |-> << >>, file |-> << >>, line |-> << >>, column |-> << >>]

ParseAnswer(text) ==
  LET from[i \in 0 .. MaxFrames] ==   \* what is left after i frames, and they
        IF i = 0 THEN [str |-> text, frames |-> << >>, more |-> TRUE]
        ELSE LET name == ExtractToken(from[i - 1].str, {"nl"})
                 location == ExtractToken(name.rest, {"nl"})
             IN IF name.token = << >> \/ ~from[i - 1].more
                THEN [from[i - 1] EXCEPT !.more = FALSE]
                ELSE [str |-> location.rest, more |-> TRUE,
                      frames |-> Append(from[i - 1].frames,
                                        ParseFrame(name.token, location.token))]
  IN IF from[MaxFrames].frames = << >> THEN <<NoFrame>> ELSE from[MaxFrames].frames

-----------------------------------------------------------------------------
\* A call ends with no frame, with the module alone, or with what was read.
FramesOf(answer) ==
  CASE answer.is = "nothing" -> << >>
    [] answer.is = "module" -> <<NoFrame>>
    [] answer.is = "text" -> ParseAnswer(answer.text)

Return(is, text) ==
  /\ step' = "idle"
  /\ returned' = [is |-> is, text |-> text, of |-> addr', calls |-> returned.calls + 1]

\* Symbolizer::SymbolizeCode up to its loop.
SymbolizeCode ==
  /\ step = "idle" /\ returned.calls < MaxCalls
  /\ \E a \in Addresses :
       /\ addr' = a
       /\ CASE Module[a] = "" -> Return("nothing", << >>)
            [] Module[a] # "" /\ symbolizer = "lost" -> Return("module", << >>)
            [] OTHER -> step' = "write" /\ UNCHANGED returned
  /\ UNCHANGED <<symbolizer, times_restarted, sigpipe, child, buffer>>

\* The request fits the pipe: it is written whole or not at all.  If nobody can
\* read it, SIGPIPE comes first, and internal_write fails if that is survived.
writeToSymbolizer ==
  /\ step = "write"
  /\ \/ child.alive /\ step' = "read" /\ child' = [child EXCEPT !.asked = <<addr>>]
     \/ ~child.alive /\ sigpipe = "default" /\ step' = "killed" /\ UNCHANGED child
     \/ ~child.alive /\ sigpipe # "default" /\ step' = "restart" /\ UNCHANGED child
  /\ buffer' = << >>
  /\ UNCHANGED <<addr, symbolizer, times_restarted, sigpipe, returned>>

Complete(text) ==
  Len(text) >= 2 /\ text[Len(text)] = "nl" /\ text[Len(text) - 1] = "nl"

\* One read() of the loop; it gives 0 when the buffer is full, and when the
\* process is gone and all of its output has been read.
readFromSymbolizer ==
  /\ step = "read" /\ addr' = addr
  /\ \/ \E n \in 1 .. kMaxBufferSize - Len(buffer) :
          /\ n <= Len(child.out)
          /\ child' = [child EXCEPT !.out = SubSeq(@, n + 1, Len(@))]
          /\ buffer' = buffer \o SubSeq(child.out, 1, n)
          /\ IF Complete(buffer') THEN Return("text", buffer')
             ELSE UNCHANGED <<step, returned>>
     \/ /\ Len(buffer) = kMaxBufferSize \/ (child.out = << >> /\ ~child.alive)
        /\ step' = "restart" /\ UNCHANGED <<child, buffer, returned>>
  /\ UNCHANGED <<symbolizer, times_restarted, sigpipe>>

BugRestart ==
  /\ step = "restart"
  /\ addr' = addr
  /\ step' = "write" /\ child' = Fresh /\ UNCHANGED <<symbolizer, returned, times_restarted>>
  /\ UNCHANGED <<sigpipe, buffer>>

\* Restart and what the loop does with its answer: pipe, fork or the new
\* process may fail.
Restart ==
  /\ step = "restart"
  /\ addr' = addr
  /\ \/ /\ times_restarted < kMaxTimesRestarted
        /\ times_restarted' = times_restarted + 1
        /\ step' = "write" /\ child' = Fresh /\ UNCHANGED <<symbolizer, returned>>
     \/ /\ times_restarted' = IF times_restarted < kMaxTimesRestarted
                              THEN times_restarted + 1 ELSE times_restarted
        /\ symbolizer' = "lost" /\ Return("module", << >>) /\ UNCHANGED child
  /\ UNCHANGED <<sigpipe, buffer>>

\* The other process.
ChildAnswers ==
  /\ child.alive /\ child.asked # << >>
  /\ child' = [child EXCEPT !.asked = << >>, !.out = @ \o Answer[child.asked[1]]]
  /\ UNCHANGED <<step, addr, symbolizer, times_restarted, sigpipe, buffer, returned>>
\* It may end at any time, some of its output not written.
ChildDies ==
  /\ child.alive
  /\ \E n \in 0 .. Len(child.out) :
       child' = [alive |-> FALSE, asked |-> << >>, out |-> SubSeq(child.out, 1, n)]
  /\ UNCHANGED <<step, addr, symbolizer, times_restarted, sigpipe, buffer, returned>>

SymbolizerInit ==
  /\ step = "idle" /\ addr \in Addresses
  /\ symbolizer = "ready" /\ times_restarted = 0 /\ child = Fresh
  /\ sigpipe \in {"default", "ignored"}
  /\ buffer = << >> /\ returned = [is |-> "nothing", text |-> << >>, of |-> addr, calls |-> 0]

Parent == writeToSymbolizer \/ readFromSymbolizer \/ Restart
SymbolizerNext == SymbolizeCode \/ Parent \/ ChildAnswers \/ ChildDies

-----------------------------------------------------------------------------
(* StartSymbolizerSubprocess: five pipes, of which two are kept.  pipe()    *)
(* takes the lowest free descriptors.                                      *)

NextPipe(open) ==
  LET a == Min({fd \in 0 .. 20 : fd \notin open})
  IN <<a, Min({fd \in 0 .. 20 : fd \notin open \cup {a}})>>
Pipes(open) ==
  LET made[i \in 0 .. 5] ==
        IF i = 0 THEN << >>
        ELSE Append(made[i - 1], NextPipe(open \cup UNION {ToSet(p) : p \in ToSet(made[i - 1])}))
      high(i) == \A fd \in ToSet(made[5][i]) : fd > 2
      infd == Min({i \in 1 .. 5 : high(i)})
      outfd == Min({i \in 1 .. 5 : high(i) /\ i > infd})
  IN [infd |-> made[5][infd], outfd |-> made[5][outfd],
      closed |-> UNION {ToSet(made[5][i]) : i \in 1 .. outfd - 1} \ ToSet(made[5][infd]),
      opened |-> UNION {ToSet(made[5][i]) : i \in 1 .. outfd}]

-----------------------------------------------------------------------------
(* StackTrace::PrintStack.  found is what the callback and SymbolizeCode    *)
(* say of a return address: <<callback, frames>>.                          *)

patch_pc(pc) == pc - 1
PrintStack(trace, found) ==
  LET n == Min({i \in DOMAIN trace : trace[i] = 0} \cup {Len(trace) + 1}) - 1
      lines(i) ==
        CASE found[i].callback -> <<"callback">>
          [] ~found[i].callback /\ found[i].frames # 0 -> [j \in 1 .. found[i].frames |-> "frame"]
          [] OTHER -> <<"module">>
      print[i \in 0 .. n] ==
        IF i = 0 THEN << >>
        ELSE print[i - 1] \o [j \in 1 .. Len(lines(i)) |->
               [number |-> Len(print[i - 1]) + j - 1, pc |-> patch_pc(trace[i]), what |-> lines(i)[j]]]
  IN print[n]

-----------------------------------------------------------------------------
\* A call answers for its own address: with what the symbolizer says of it, cut
\* to the caller's room, or with the module alone once the symbolizer is lost.
AnswersBelong ==
  step = "idle" /\ returned.calls > 0 =>
    \/ FramesOf(returned) = ParseAnswer(Answer[returned.of]) /\ Module[returned.of] # ""
    \/ returned.is = "module" /\ symbolizer = "lost"
    \/ returned.is = "nothing" /\ Module[returned.of] = ""

\* If the process it asks answers or ends, a call does not restart for ever one
\* that always ends, nor wait for one that is gone: it returns, or the program has
\* been killed by SIGPIPE.  A program that ignores SIGPIPE gets every call back.
CallReturns ==
  /\ step \in {"write", "read", "restart"} ~> step \in {"idle", "killed"}
  /\ step # "idle" /\ sigpipe # "default" ~> step = "idle"

\* Only a write to a process that has ended kills the program, and only one that
\* leaves SIGPIPE alone (sanitizer_symbolizer.cc:197).
KilledOnlyBySigpipe == step = "killed" => sigpipe = "default" /\ ~child.alive
=============================================================================
