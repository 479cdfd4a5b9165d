----------------------------- MODULE MCAssembly -----------------------------
(* A curtain of category "cl" with two motors, each with a position DP     *)
(* beside its target, a mode the tables know, and two DPs they do not: one *)
(* that counts energy, one named like a property of the cover.  The DP of  *)
(* a camera, a plan that is not exposed, is of category "sp".              *)
EXTENDS Assembly
CONSTANT none

CodeOf(word, motor) == IF motor = 1 THEN <<word>> ELSE <<word, "2">>
CoverPlan(motor) ==
  LET word == CodeOf("control", motor)
      target == CodeOf("percent_control", motor)
      position == CodeOf("percent_state", motor)
      button(name) == [name |-> name, grouped |-> TRUE, of |-> {word}, writable |-> TRUE]
  IN  [id |-> word, key |-> word, needs |-> {word}, codes |-> {word, target, position},
       exposed |-> TRUE, composite |-> TRUE,
       cover |-> [position |-> position, target |-> target, word |-> word],
       rows |-> <<[name |-> <<"position">>, grouped |-> TRUE, of |-> {target, position},
                   writable |-> TRUE],
                  [name |-> <<"tilt">>, grouped |-> TRUE, of |-> {<<"angle">>}, writable |-> TRUE],
                  button(<<"open">>)>>]
Mode == <<"control_back_mode">>
Camera == [UnusedPlan(<<"basic_private">>) EXCEPT !.exposed = FALSE]
MCDps == <<CodeOf("control", 1), CodeOf("percent_control", 1), CodeOf("percent_state", 1),
           CodeOf("control", 2), CodeOf("percent_control", 2), CodeOf("percent_state", 2),
           Mode, <<"position">>, <<"add_ele">>, <<"basic_private">>>>
MCPlans == <<UnusedPlan(Mode), Camera, CoverPlan(1), CoverPlan(2)>>
MCWritable == {Mode} \cup {CodeOf(w, m) : w \in {"control", "percent_control"}, m \in {1, 2}}
MCDeltas == {<<"add_ele">>}
MCNumbers == <<"1", "2", "3">>

Of(source, fromTarget) == [source |-> source, fromTarget |-> fromTarget]
Second == <<"control", "2">>
CoverBlocks == {<<>>, <<>> :> Of("inferred", TRUE), Second :> Of("control", TRUE),
                (<<>> :> Of("control", TRUE)) @@ (Second :> Of("none", TRUE)),
                <<"control", "3">> :> Of("inferred", FALSE)}
Prop(rw, program) == [rw |-> rw, program |-> program]
Converters == {<<>>, CoverState :> Prop(FALSE, FALSE), (Second \o CoverState) :> Prop(FALSE, FALSE),
               <<"cover", "invert_position">> :> Prop(TRUE, TRUE),
               <<"position">> :> Prop(TRUE, TRUE), <<"position">> :> Prop(TRUE, FALSE)}
As(src, hide, rw) == [src |-> src, hide |-> hide, rw |-> rw]
PropsBlocks == {<<>>, CoverState :> As(none, TRUE, none), Mode :> As(none, FALSE, FALSE),
                <<"cover", "invert_position">> :> As(CodeOf("percent_control", 1), FALSE, none),
                <<"feedback">> :> As(CodeOf("percent_state", 1), FALSE, none),
                <<"delta", "accept_passive">> :> As(none, TRUE, none)}
MCBlocks == {b \in [auto : BOOLEAN, unused : BOOLEAN, deviceSettings : BOOLEAN,
                    cover : CoverBlocks, converter : Converters, props : PropsBlocks] :
               ~b.auto => b.cover = <<>> /\ ~b.unused}

(* The curtain's plans are as those of the rule data. *)
ASSUME CurtainSpared == PositionsSpared
=============================================================================
