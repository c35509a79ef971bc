-------------------------------- MODULE Setup --------------------------------
(***************************************************************************)
(* How a program comes to its logger (LoggerBuilder, the global logger and *)
(* the macros of logger.rs; from_env of filter.rs).  The main thread parses *)
(* a filter, chains calls of a builder, builds a logger and installs it,   *)
(* while another thread calls init_default and any thread logs through the *)
(* macros.  Opening a file, and building, may fail.                        *)
(***************************************************************************)
EXTENDS TargetFilter

CONSTANTS
    SetupSpecs,     (* bound: the parsed specs that a program goes on with    *)
    Environments,   (* the XOSLOG variable: [state, parts], the state being   *)
                    (* "unset", "blank" or "text"                             *)
    MaxBuilderCalls,(* bound: calls on one builder                            *)
    RaceCalls,      (* bound: init_default and macros run beside a builder of *)
                    (* at most so many calls, on which they do not depend     *)
    MaxRecords      (* bound: uses of a macro                                 *)

Info == 2

ASSUME SetupAssumption ==
    /\ {MaxBuilderCalls, RaceCalls, MaxRecords} \subseteq Nat
    /\ \A e \in Environments : e.state \in {"unset", "blank", "text"} /\ e.parts \in Seq(Parts)

VARIABLES
    stage,          (* the main thread: "parsing", "building", "built" or     *)
                    (* "installed"                                            *)
    env,            (* the XOSLOG variable                                    *)
    builder,        (* its LoggerBuilder                                      *)
    calls,          (* history: the calls that made it what it is             *)
    loggers,        (* loggers[t]: what thread t built, with the calls that   *)
                    (* made its builder, once it has                          *)
    global,         (* GLOBAL: the thread whose logger it holds, or NoLogger  *)
    peer,           (* the thread in init_default: "idle", "built", "done" or *)
                    (* "failed"                                               *)
    dropped,        (* the threads whose loggers have lost their last handle  *)
    records         (* what became of each use of a macro                     *)

setup == <<stage, env, builder, calls, loggers, global, peer, dropped, records>>

NoLogger == "none"      \* the others are "main" and "peer"
NoFilter == [some |-> FALSE, list |-> <<>>]
NewBuilder ==   \* LoggerBuilder::new
    [level |-> Info, json |-> FALSE, filter |-> NoFilter, read_env |-> TRUE, sinks |-> <<>>]

SetupInit ==
    /\ Init
    /\ stage = "parsing"
    /\ env = [state |-> "unset", parts |-> <<>>]
    /\ builder = NewBuilder
    /\ calls = <<>>
    /\ loggers = <<>>
    /\ global = NoLogger
    /\ peer = "idle"
    /\ dropped = {}
    /\ records = <<>>

------------------------------------------------------------------------------
(* The builder.                                                             *)

Call(op, level, text) == [op |-> op, level |-> level, text |-> text]

(* to_stdout, to_stderr, to_file, to_syslog, to_remote_syslog and sink put  *)
(* one sink, without a floor, in the place of all; add_sink appends one.    *)
SinkMethods == {"to_stdout", "to_file"}

Calls ==
    {Call("level", l, <<>>) : l \in Levels \ {Info}}
      \cup {Call("filter", Off, text) : text \in {spec, <<>>}}
      \cup {Call("add_sink", l, <<>>) : l \in {Trace, Error}}
      \cup {Call(op, Off, <<>>) : op \in SinkMethods \cup
              {"env_filter", "ignore_env_filter", "json"}}

set_single_sink_keeping(b, source) ==
    [b EXCEPT !.sinks = Append(@, [source |-> source, floor |-> Trace])]
set_single_sink(b, source) ==
    [b EXCEPT !.sinks = <<[source |-> source, floor |-> Trace]>>]
add_sink(b, floor) == [b EXCEPT !.sinks = Append(@, [source |-> "add_sink", floor |-> floor])]

(* json stands for include_location, backpressure, channel_capacity and     *)
(* time_offset_seconds too, which set one field each that build() hands on. *)
After(b, call) ==
    CASE call.op = "level" -> [b EXCEPT !.level = call.level]
      [] call.op = "filter" -> [b EXCEPT !.filter = [some |-> TRUE, list |-> parse(call.text)]]
      [] call.op = "env_filter" -> [b EXCEPT !.read_env = TRUE]
      [] call.op = "ignore_env_filter" -> [b EXCEPT !.read_env = FALSE]
      [] call.op = "json" -> [b EXCEPT !.json = TRUE]
      [] call.op = "add_sink" -> add_sink(b, call.level)
      [] call.op \in SinkMethods -> set_single_sink(b, call.op)

(* from_env: a variable that is unset or blank is no filter.                *)
from_env == IF env.state = "text" THEN [some |-> TRUE, list |-> parse(env.parts)] ELSE NoFilter

FilterIgnoringBlank(b) ==
    IF b.read_env THEN from_env.list ELSE b.filter.list
FilterOf(b) ==
    IF b.filter.some THEN b.filter.list
    ELSE IF b.read_env /\ from_env.some THEN from_env.list ELSE <<>>

Built(b, made) ==
    [level |-> b.level, json |-> b.json, filter |-> FilterOf(b),
     sinks |-> IF b.sinks = <<>> THEN <<[source |-> "to_stdout", floor |-> Trace]>> ELSE b.sinks,
     calls |-> made]

(* Thread t has built a logger.                                             *)
WithLogger(t, logger) ==
    [u \in DOMAIN loggers \cup {t} |-> IF u = t THEN logger ELSE loggers[u]]

StartSetup ==
    /\ stage = "parsing" /\ spec \in SetupSpecs
    /\ stage' = "building"
    /\ env' \in Environments
    /\ UNCHANGED <<builder, calls, loggers, global, peer, dropped, records>>

Configure ==
    /\ stage = "building"
    /\ Len(calls) < IF peer = "idle" /\ records = <<>> THEN MaxBuilderCalls ELSE RaceCalls
    /\ \E call \in Calls :
          /\ builder' = After(builder, call)
          /\ calls' = Append(calls, call)
    /\ UNCHANGED <<stage, env, loggers, global, peer, dropped, records>>

(* to_file that cannot open the file, to_remote_syslog that cannot resolve  *)
(* the host, or build that cannot open the file again or spawn the writer:  *)
(* the builder is consumed, and the program starts another.                 *)
ConfigureFails ==
    /\ stage = "building"
    /\ builder' = NewBuilder
    /\ calls' = <<>>
    /\ UNCHANGED <<stage, env, loggers, global, peer, dropped, records>>

build ==
    /\ stage = "building"
    /\ loggers' = WithLogger("main", Built(builder, calls))
    /\ stage' = "built"
    /\ UNCHANGED <<env, builder, calls, global, peer, dropped, records>>

------------------------------------------------------------------------------
(* The global logger.                                                       *)

(* OnceLock::set                                                            *)
ReplaceGlobal(id) == id
SetGlobal(id) == IF global = NoLogger THEN id ELSE global

(* set_global: an Err gives the logger back, and the program keeps it.      *)
set_global ==
    /\ stage = "built"
    /\ global' = SetGlobal("main")
    /\ stage' = "installed"
    /\ UNCHANGED <<env, builder, calls, loggers, peer, dropped, records>>

(* init_default, on a thread of its own: build may fail; a logger that      *)
(* comes second is dropped, and the answer is Ok.                           *)
InitDefaultBuild ==
    /\ stage # "parsing" /\ peer = "idle" /\ Len(calls) <= RaceCalls
    /\ \/ /\ peer' = "built"
          /\ loggers' = WithLogger("peer", Built(NewBuilder, <<>>))
       \/ /\ peer' = "failed"
          /\ UNCHANGED loggers
    /\ UNCHANGED <<stage, env, builder, calls, global, dropped, records>>

InitDefaultSet ==
    /\ peer = "built"
    /\ global' = SetGlobal("peer")
    /\ dropped' = IF global = NoLogger THEN dropped ELSE dropped \cup {"peer"}
    /\ peer' = "done"
    /\ UNCHANGED <<stage, env, builder, calls, loggers, records>>

------------------------------------------------------------------------------
(* The macros: nothing without a global logger; otherwise is_enabled_for,   *)
(* which Logger::log asks again with the same answer, decides.              *)

is_enabled_for(logger, level, target) ==
    enabled(logger.filter, target, level, logger.level)

Log(level, target) ==
    /\ stage # "parsing"
    /\ Len(records) < MaxRecords /\ Len(calls) <= RaceCalls
    /\ records' = Append(records,
          [logger |-> global,
           logged |-> global # NoLogger /\ is_enabled_for(loggers[global], level, target),
           installed |-> stage = "installed" \/ peer = "done"])
    /\ UNCHANGED <<stage, env, builder, calls, loggers, global, peer, dropped>>

(* The program runs on with the logger it has installed.                    *)
Running == stage = "installed" /\ UNCHANGED setup

Parsing == Next /\ stage = "parsing" /\ UNCHANGED setup

SetupNext ==
    \/ Parsing
    \/ /\ \/ StartSetup \/ Configure \/ ConfigureFails \/ build
          \/ set_global \/ InitDefaultBuild \/ InitDefaultSet
          \/ \E level \in Levels \ {Off}, target \in Paths : Log(level, target)
          \/ Running
       /\ UNCHANGED vars

SetupSpec == SetupInit /\ [][SetupNext]_<<setup, vars>>

------------------------------------------------------------------------------
(* Properties.                                                              *)

Ops(made, ops) == {i \in 1..Len(made) : made[i].op \in ops}
Latest(indices) == CHOOSE i \in indices : \A j \in indices : j <= i

(* The filter text that a history of calls asks for: that of the last       *)
(* filter(); without one, the environment's, unless the last word about it  *)
(* was to ignore it.                                                        *)
EnvWanted(made) ==
    LET about == Ops(made, {"env_filter", "ignore_env_filter"})
    IN  about = {} \/ made[Latest(about)].op = "env_filter"
TextFor(made) ==
    IF Ops(made, {"filter"}) # {} THEN made[Latest(Ops(made, {"filter"}))].text
    ELSE IF EnvWanted(made) /\ env.state = "text" THEN env.parts
    ELSE <<>>
LevelFor(made) ==
    IF Ops(made, {"level"}) = {} THEN Info ELSE made[Latest(Ops(made, {"level"}))].level

(* Every logger admits the records that the documentation gives it: those   *)
(* at or above the word of an explicit filter for their target, of the      *)
(* environment's when there is none and it is not ignored, and of level()   *)
(* where neither has one, in whatever order the builder's methods were      *)
(* called (logger.rs:326-330, 336-353).  What a text says is parse()'s      *)
(* reading of it, that of a stray "=" too (see StrayEqualsSkipped).         *)
ConfiguredFilter ==
    \A t \in DOMAIN loggers :
        LET logger == loggers[t]
        IN  \A target \in Paths \cup {<<>>}, level \in 0..Off :
                is_enabled_for(logger, level, target) <=>
                  level \in Word(TextFor(logger.calls), target, LevelFor(logger.calls))..Error

(* The methods that set a single sink, and the add_sink calls since.        *)
Singles(made) == Ops(made, SinkMethods)
Added(made) ==
    Ops(made, {"add_sink"})
      \ (IF Singles(made) = {} THEN {} ELSE 1..Latest(Singles(made)))

(* The first sink, if it is not one of add_sink's, and those of add_sink.   *)
SinksAre(sinks, made, first) ==
    /\ Len(sinks) = first + Cardinality(Added(made))
    /\ first = 1 =>
          sinks[1] = [source |-> IF Singles(made) = {} THEN "to_stdout"
                                 ELSE made[Latest(Singles(made))].op,
                      floor |-> Trace]
    /\ \A i \in Added(made) :
          sinks[first + Cardinality({j \in Added(made) : j <= i})]
            = [source |-> "add_sink", floor |-> made[i].level]

(* A logger has the sink of the last method that sets a single one, for all *)
(* levels, before those that add_sink has added since, in their order and   *)
(* each with its floor; and standard output when it would have none         *)
(* (logger.rs:436-452, 523-529).                                            *)
ConfiguredSinks ==
    \A t \in DOMAIN loggers :
        LET made == loggers[t].calls
        IN  SinksAre(loggers[t].sinks, made,
                     IF Singles(made) = {} /\ Added(made) # {} THEN 0 ELSE 1)

(* The macros speak to one logger for the rest of the program, whichever of *)
(* the threads installed it; it is never the one that init_default dropped; *)
(* and no macro is lost on "no logger" once a call that installs one has    *)
(* returned Ok or Err (logger.rs:756-763).                                  *)
OneLoggerForMacros ==
    /\ \A i, j \in 1..Len(records) :
          i < j /\ records[i].logger # NoLogger => records[j].logger = records[i].logger
    /\ \A i \in 1..Len(records) :
          /\ records[i].installed => records[i].logger # NoLogger
          /\ records[i].logger \notin dropped
==============================================================================
