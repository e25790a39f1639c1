------------------------------ MODULE MCScenarios ------------------------------
(* The default state, data/seeds/default.json, whole.                      *)
EXTENDS Scenarios

Doc(kind, path, label) == [id |-> <<0, label>>, kind |-> kind, path |-> path]

DefaultOrgs == <<
    <<"acme">>, <<"acme", "engineering">>, <<"acme", "engineering", "platform">>,
    <<"acme", "engineering", "product">>, <<"acme", "operations">>,
    <<"acme", "operations", "logistics">>, <<"acme", "finance">> >>

DefaultTree == <<
    Doc("file", <<"README.txt">>, "README.txt"),
    Doc("dir", <<"engineering">>, "docs/engineering"),
    Doc("file", <<"engineering", "architecture.txt">>, "architecture.txt"),
    Doc("dir", <<"engineering", "platform">>, "docs/platform"),
    Doc("file", <<"engineering", "platform", "runbook.txt">>, "runbook.txt"),
    Doc("dir", <<"finance">>, "docs/finance"),
    Doc("file", <<"finance", "budget.csv">>, "budget.csv"),
    Doc("dir", <<"operations">>, "docs/operations"),
    Doc("dir", <<"operations", "logistics">>, "docs/logistics"),
    Doc("file", <<"operations", "logistics", "carriers.csv">>, "carriers.csv") >>

SomeTargets == {"finance", "notes", "docs/finance", "empty", "branch"}
================================================================================
