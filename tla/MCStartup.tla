------------------------------ MODULE MCStartup ------------------------------
(* Four plugins for TLC: one with namespaced commands, like karma, one     *)
(* with scheduled actions, of which two are refused, one with overlapping  *)
(* matches, silent answers and every option of an answer, and another one  *)
(* of the first one's name.                                                *)
EXTENDS Startup

Action(matches, answersNil, options) ==
    [matches |-> matches, answersNil |-> answersNil, options |-> options]

Command(matches, answersNil, options, hidden, usage) ==
    Action(matches, answersNil, options) @@ [hidden |-> hidden, usage |-> usage]

Plugin(name, namespaced, commands, hearActions, scheduledActions) ==
    [name |-> name, namespaceCommands |-> namespaced, commands |-> commands,
     hearActions |-> hearActions, scheduledActions |-> scheduledActions]

Karma == Plugin("karma", TRUE,
    << Command({"top"}, {}, <<AnswerInThreadWithoutBroadcast>>, FALSE, "top"),
       Command({"top"}, {}, <<AnswerInThread>>, TRUE, "best") >>,
    << Action({"thing"}, {}, <<AnswerEphemeral("user")>>) >>, <<>>)

OhMonday == Plugin("ohMonday", FALSE,
    << Command({"thing"}, {"thing"}, <<>>, TRUE, "thing") >>, <<>>,
    << [unit |-> "hours", atTime |-> "10:00", doFails |-> FALSE],
       [unit |-> "", atTime |-> "", doFails |-> TRUE],
       [unit |-> "weeks", atTime |-> "10:00", doFails |-> FALSE] >>)

Triggerer == Plugin("triggerer", FALSE,
    << Command({"top"}, {}, <<>>, FALSE, "top") >>,
    << Action({"thing", "top"}, {"top"}, <<AnswerWithoutThreading>>),
       Action({"thing"}, {}, <<AnswerInThreadWithBroadcast>>) >>, <<>>)

OtherKarma == Plugin("karma", TRUE, << Command({"top"}, {}, <<>>, FALSE, "top") >>, <<>>, <<>>)

With(plugin, configurable, closer) ==
    [plugin |-> plugin, configurable |-> configurable, mayFail |-> TRUE, closer |-> closer]

MCChain == << With(Karma, FALSE, FALSE), With(OhMonday, TRUE, TRUE), With(Triggerer, FALSE, TRUE),
              [With(OtherKarma, FALSE, FALSE) EXCEPT !.mayFail = FALSE] >>

MCSettings == [responseCacheSize : {Unset, 5}, partitionCount : {Unset, 3},
               validTimeLocation : BOOLEAN,
               pluginConfig : [{"ohMonday"} -> {"missing", "value", "tree"}]]

Text(prefixed, namespace, body) ==
    [prefixed |-> prefixed, namespace |-> namespace, body |-> body]

MCTexts == { Text(FALSE, "", "thing"), Text(FALSE, "", "top"), Text(FALSE, "karma", "top"),
             Text(TRUE, "", "top"), Text(TRUE, "karma", "top") }
=============================================================================
