------------------------------ MODULE MCTables -------------------------------
(***************************************************************************)
(* Devices for TLC: a curtain that says on, off and pause, with and        *)
(* without a target of its own, one whose control is a number that an enum *)
(* conversion makes words of, and one with a Boolean control; each has a   *)
(* position and may have an undescribed DP.                                *)
(***************************************************************************)
EXTENDS Tables

Dp(of, kind, words, max, scale) ==
  [of |-> of, kind |-> kind, range |-> {Word(w) : w \in words}, min |-> 0, max |-> max,
   step |-> 1, scale |-> scale]

Odd == Dp("odd", "Enum", {"on", "off", "pause"}, 0, 1)
Words == Dp("words", "Enum", {"open", "close", "stop"}, 0, 1)
Toggle == Dp("toggle", "Boolean", {}, 0, 1)
Percent == Dp("percent", "Integer", {}, 100, 1)
Aim == Dp("aim", "Integer", {}, 100, 1)
Permille == Dp("permille", "Integer", {}, 1000, 10)

Strategy(code, convert, config, missing) ==
  [code |-> code, convert |-> convert, config |-> config, missing |-> missing]

Curtain(spec, convert, config, now) ==
  [function     |-> (Control :> spec),
   status_range |-> (Control :> spec) @@ (Position :> Percent),
   status       |-> (Control :> now) @@ (Position :> Number(40)),
   local_strategy |-> ("1" :> Strategy(Control, convert, config, Word("open")))
                        @@ ("2" :> Strategy(Position, "default", <<>>, Number(0)))]
Targeted(d) ==
  [d EXCEPT !.function = (Target :> Aim) @@ @,
            !.status_range = (Target :> Aim) @@ @,
            !.local_strategy = @ @@ ("4" :> Strategy(Target, "default", <<>>, Number(0)))]
Numbered == ("0" :> "open") @@ ("1" :> "close") @@ ("2" :> "stop") @@ ("opened" :> "open")

MCDevices == {Targeted(Curtain(Odd, "default", <<>>, Word("on"))),
              Curtain(Odd, "default", <<>>, Word("on")), Curtain(Words, "enum", Numbered, Word("stop")),
              Curtain(Toggle, "default", <<>>, Bool(TRUE))}

Always == [code |-> None, least |-> 0]
MCQuirks ==
  {<<>>,
   <<[op |-> "DefineDp", id |-> "3", code |-> "level", spec |-> Permille, mode |-> {"R", "W"}, when |-> Always]>>,
   <<[op |-> "DefineDp", id |-> "3", code |-> "shut", spec |-> Permille, mode |-> {"W"}, when |-> Always]>>,
   <<[op |-> "RemoveDp", id |-> "2", code |-> Position, when |-> Always],
     [op |-> "DefineDp", id |-> "2", code |-> "level", spec |-> Percent, mode |-> {"W"},
      when |-> [code |-> Position, least |-> 30]]>>}
MCDpMaps == {<<>>, "3" :> "level", "3" :> Control}

Patch(id, code, spec, mode) == [id |-> id, code |-> code, spec |-> spec, mode |-> mode]
MCPatches ==
  {Patch(i, c, None, {}) : i \in {"1", "2", "3"}, c \in {Control, Position, "level"}}
    \cup {Patch("1", Control, Words, {"R", "W"}), Patch("2", "level", Permille, {"R", "W"}),
          Patch("3", Position, Permille, {"R"})}
\* A bound: no more than two of the DPs of a device.
MCBlocks ==
  {b \in UNION {[1..n -> MCPatches] : n \in 0..2} :
     \A i, j \in DOMAIN b : b[i].id = b[j].id => i = j}

Alias(f) == [alias |-> f, invert |-> FALSE]
Mirror == [alias |-> <<>>, invert |-> TRUE]
MCRemaps ==
  {<<>>,
   (Control :> Alias(("on" :> "open") @@ ("off" :> "close") @@ ("pause" :> "stop"))),
   (Control :> Alias(("open" :> "close") @@ ("close" :> "open"))) @@ (Position :> Mirror),
   (Control :> Alias("on" :> "open")) @@ ("level" :> Mirror),
   (Control :> Mirror)}
MCRemovals == {{}, {Position}, {Control, "level"}}
MCCoverSettings ==
  {[on |-> s, source |-> "inferred"] : s \in SUBSET {"invert_position", "invert_control"}}
    \cup {[on |-> {"position_from_target"} \cup s, source |-> "control"]
            : s \in SUBSET {"invert_position", "invert_set_position"}}
    \cup {[on |-> {"invert_set_position"}, source |-> "none"]}
=============================================================================
