------------------------------- MODULE MCHttpResponse -------------------------------
(***************************************************************************)
(* An instance of HttpResponse for TLC: an answer to a sign-in, a message  *)
(* whose text looks like a header, an empty answer without an id whose     *)
(* connection is kept, a refusal, and answers whose length is wrong.       *)
(***************************************************************************)
EXTENDS HttpResponse

Given(status, fields, body) == [status |-> status, fields |-> fields, body |-> body]
Text == Line("text", 0)

MCAnswers == {
    Given(200, <<Line("length", 2), Line("pragma", 1), Line("close", 0)>>, <<Text, Text>>),
    Given(200, <<Line("pragma", 2), Line("length", 4)>>,
          <<Line("length", 9), Line("blank", 0), Line("pragma", 3), Line("close", 0)>>),
    Given(200, <<Line("length", 3)>>,
          <<Line("pragma", 3), Line("close", 0), Line("status", 404)>>),
    Given(200, <<Line("length", 0), Line("close", 0)>>, <<>>),
    Given(404, <<Line("length", 0)>>, <<>>),
    Given(200, <<Line("length", -1), Line("pragma", 1)>>, <<Text, Line("blank", 0)>>),
    Given(200, <<Line("length", 1), Line("close", 0)>>, <<Text, Text>>),
    Given(200, <<Line("length", 3)>>, <<Text>>),
    Given(200, <<Line("pragma", 1)>>, <<Line("length", 1)>>)}
=============================================================================
