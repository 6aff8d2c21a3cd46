----------------------------- MODULE MCBatchJobs -----------------------------
(* Instances of BatchJobs for TLC.  The streams hold every kind of line,     *)
(* repeated keys, and event times that go back by less and by more than the  *)
(* threshold; the directories, API and data sets hold one case of each kind. *)
EXTENDS BatchJobs

Line(kind, sensor, time) == [kind |-> kind, sensor |-> sensor, at |-> time]

MCInputs ==
  LET good(t) == Line("good", "s", t)
      other == {Line("offset", "s", 3), Line("naive", "s", 2), Line("blank", "s", 2),
                Line("invalid", "s", 2), Line("array", "s", 2), Line("scalar", "s", 2),
                Line("torn", "s", 2)}
  IN  {<<>>, <<good(1), good(3), good(1)>>, <<good(3), good(4), good(2)>>,
       <<good(4), good(1), good(2)>>, <<good(2), good(4), good(2)>>}
        \cup {<<good(3), x, good(1)>> : x \in other}
        \cup {<<x, x>> : x \in {Line("naive", "s", 2), Line("blank", "s", 2)}}
MCLimits == {-1, 0, 2}

PostOf(id, kind) == [id |-> id, kind |-> kind]
MCServed == <<PostOf(1, "good"), PostOf(2, "null"), PostOf(3, "named"), PostOf(4, "lacks")>>
MCNewcomers == {PostOf(5, kind) : kind \in {"good", "number", "nothing"}}

Row(header, values) ==
  [i \in DOMAIN values |->
     [name |-> IF i \in DOMAIN header THEN header[i] ELSE "", value |-> values[i]]]
Csv(header, rows) ==
  [readable |-> TRUE, header |-> header, spaced |-> {}, rows |-> [k \in DOMAIN rows |-> Row(header, rows[k])]]
MCDirectories ==
  { <<>>,
    << [Csv(<<>>, <<>>) EXCEPT !.readable = FALSE] >>,
    << [Csv(<<"id">>, << <<"1">> >>) EXCEPT !.spaced = {"id"}], Csv(<<"id">>, << <<"2">> >>) >>,
    << Csv(<<"id", "name">>, << <<"1", "a">>, <<"1", "a", "b">>, <<"1", "a">>, <<"2">> >>),
       Csv(<<"name", "id">>, << <<"a", "1">>, <<"b">> >>) >>,
    << Csv(<<"name">>, << <<"a">> >>), Csv(<<"id", "name">>, << <<"1", "a">> >>),
       Csv(<<"id", "city">>, << <<"1", "a">> >>) >> }

Data(customers, price, orders, items) ==
  [customers |-> customers, prices |-> [p \in {"p"} |-> price], orders |-> orders,
   items |-> items, events |-> {"e"}]
MCDatasets ==
  { Data({"c"}, "positive", [o \in {"o"} |-> "c"], {<<"o", "p">>}),
    Data({"c", "d"}, "negative", [o \in {"o", "q"} |-> IF o = "o" THEN "d" ELSE "nobody"],
         {<<"o", "p">>, <<"q", "p">>}) }
MCFiles == {{}, {"orders"}, {"customers", "events"}}
=============================================================================
