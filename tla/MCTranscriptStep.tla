-------------------------- MODULE MCTranscriptStep --------------------------
EXTENDS TranscriptStep

MCFiles == {1}
MCCommands == {<<"shell_add", "cd_down">>, <<"shell_remove", "config_set">>}
MCControls == {<<"ws_open", "cd_up">>, <<"peek">>}
MCAnswers == {Plan(<<"shell", "edit">>, <<>>)}
MCEdited == {Say("result"), Plan(<<"shell", "edit">>, <<>>)}

ASSUME MCPlansInOrder == PlansInOrder
=============================================================================
