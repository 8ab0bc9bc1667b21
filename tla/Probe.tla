-------------------------------- MODULE Probe --------------------------------
(***************************************************************************)
(* The system information of a host (src/ssh/sysinfo.rs): what the probe   *)
(* prints, how much of it is captured, and what is read out of that.       *)
(*                                                                         *)
(* Text is a sequence of symbols: a marker stands for its whole prefix, a  *)
(* value is a sequence of symbols that are no marker and no line break.    *)
(***************************************************************************)
EXTENDS Integers, Sequences, SequencesExt

CONSTANTS NewLine, Blank,
          IsNumber(_)      \* a value that parses as its integer

Single == <<"cpuModel", "cpuCores", "memTotal", "memUsed", "diskTotal", "diskUsed">>
Dynamic == <<"memUsed", "diskUsed">>
Numeric == {"cpuCores", "memTotal", "memUsed", "diskTotal", "diskUsed"}
Nothing == <<>>

\* probe_command and usage_command: one line for each figure, blank if the host
\* has no tool for it, and one for each card.
EchoOf(host, keys) == FlattenSeq([i \in DOMAIN keys |-> <<keys[i]>> \o host[keys[i]] \o <<NewLine>>])
ProbeOutput(host) ==
    EchoOf(host, Single) \o FlattenSeq([i \in DOMAIN host.gpus |-> <<"gpu">> \o host.gpus[i] \o <<NewLine>>])
UsageOutput(host) == EchoOf(host, Dynamic)

\* exec_capture: the data before the first message that ends it, in either
\* stream; without one it runs out of time.
Ending == {"exitStatus", "eof", "close", "gone"}
ExecCapture(messages) ==
    LET end == SelectInSeq(messages, LAMBDA msg : msg.is \in Ending)
        heard == SelectSeq(SubSeq(messages, 1, end - 1), LAMBDA msg : msg.is \in {"data", "extendedData"})
    IN IF end = 0 THEN [ok |-> FALSE]
       ELSE [ok |-> TRUE, text |-> FlattenSeq([i \in DOMAIN heard |-> heard[i].data])]

\* The lines that have this marker, without it, trimmed.
Lines(text) ==
    FoldLeft(LAMBDA lines, symbol : IF symbol = NewLine THEN Append(lines, <<>>)
                                    ELSE [lines EXCEPT ![Len(lines)] = Append(@, symbol)],
             <<<<>>>>, text)
Trimmed(value) ==
    LET solid == {i \in DOMAIN value : value[i] # Blank}
    IN IF solid = {} THEN <<>>
       ELSE SubSeq(value, CHOOSE i \in solid : \A j \in solid : i <= j,
                          CHOOSE i \in solid : \A j \in solid : i >= j)
Marked(text, key) ==
    LET lines == SelectSeq(Lines(text), LAMBDA line : line # <<>> /\ Head(line) = key)
    IN [i \in DOMAIN lines |-> Trimmed(Tail(lines[i]))]

\* The first such line counts, even if it is blank and a later one is not.
Field(text, key) == LET marked == Marked(text, key) IN IF marked = <<>> THEN Nothing ELSE Head(marked)
Fields(text, key) == SelectSeq(Marked(text, key), LAMBDA value : value # Nothing)
Figure(text, key) ==
    LET value == Field(text, key) IN IF key \in Numeric /\ ~IsNumber(value) THEN Nothing ELSE value

Parse(text) ==
    LET gpus == Fields(text, "gpu")
    IN [key \in ToSet(Single) \cup {"gpu", "gpus"} |->
          CASE key = "gpus" -> gpus
            [] key = "gpu"  -> IF gpus = <<>> THEN Nothing ELSE Head(gpus)
            [] OTHER -> Figure(text, key)]
ParseUsage(text) == [key \in ToSet(Dynamic) |-> Figure(text, key)]
=============================================================================
