--------------------------- MODULE MCContinuation ---------------------------
EXTENDS Continuation

MCFiles == {1, 2}
MCCommands == {<<"shell_remove">>}
MCControls == {}
MCAnswers == {Say("loose")}
MCEdited == {}
MCRestoration == <<"shell">>
=============================================================================
