---------------------------- MODULE MCSimulator ----------------------------
(* Instances of Simulator for TLC.                                           *)
EXTENDS Simulator

TwoScenarios == <<"python-ok", "python-tl">>

\* A setting that only its argument gives, and one that only the environment does.
Argument(v) == [arg |-> v, env |-> Unset]
Environment(v) == [arg |-> Unset, env |-> v]
Default == Environment(Unset)

Plain == [iterations |-> Default, interval |-> Default, wait |-> Default, poll |-> Default]

\* The defaults; two iterations without a pause, one without a limit, after
\* variables that cannot be used, and with an argument that cannot be read; two
\* with a pause that cannot be timed and a poll that raises; and no end, with
\* such a pause and with such a poll.
Starts ==
    {Plain,
     [Plain EXCEPT !.iterations = Argument(2), !.interval = Environment(-1)],
     [Plain EXCEPT !.wait = Environment(Endless), !.iterations = Environment(Garbage)],
     [Plain EXCEPT !.poll = Environment(-1), !.interval = Environment(Garbage)],
     [Plain EXCEPT !.poll = Argument(Garbage)],
     [Plain EXCEPT !.iterations = Environment(2), !.interval = Argument(Endless),
                   !.poll = Argument(-1), !.wait = Environment(Garbage)],
     [Plain EXCEPT !.iterations = Argument(0), !.interval = Argument(Endless)],
     [Plain EXCEPT !.iterations = Argument(0), !.poll = Argument(-1)]}

\* A late report of an earlier run with its id in the key, one of an unknown
\* type, one without an id, one that cannot be formatted and one that is not JSON;
\* the late one comes twice.
Late == [key |-> <<"python-ok", 9>>, id |-> NoId, body |-> "report"]
Unknown == [key |-> NoId, id |-> <<"other", 1>>, body |-> "report"]
Nameless == [key |-> NoId, id |-> NoId, body |-> "report"]
Broken == [key |-> NoId, id |-> <<"python-tl", 9>>, body |-> "no text"]
NoJSON == [key |-> NoId, id |-> NoId, body |-> "garbled"]
LateAgain == [key |-> <<"python-ok", 9>>, id |-> NoId, body |-> "report", copy |-> 2]

OldReports == {{}, {Late, LateAgain}, {Unknown}, {Nameless}, {Broken}, {NoJSON}}
==============================================================================
