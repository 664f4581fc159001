----------------------------- MODULE MCQuestionList ----------------------------
EXTENDS QuestionList, BuiltInQuestions

MCBank == Questions

\* A word that can be typed with a space behind it, and what it finds.
MCTrimmed == ("" :> "") @@ ("join" :> "join") @@ ("join " :> "join")
MCFinds ==
  "join" :> {"orders-with-customer-names", "customers-without-orders", "pyspark-premium-customer-orders"}

Extra(id, enabled) ==
  [id |-> id, type |-> "SQL", difficulty |-> "Medium", category |-> "Joins",
   languages |-> {"PostgreSQL"}, companies |-> {"Amazon"}, enabled |-> enabled]
MCStored == {<<>>, <<Extra("stored", TRUE)>>,
             <<Extra("stored", FALSE), Extra("orders-with-customer-names", TRUE)>>}
\* Two questions of one category.
MCPractised == {"pyspark-running-daily-revenue", "pyspark-department-salary-ranks"}
MCPicks ==
  {<<"text", "join">>, <<"text", "join ">>, <<"status", "Unsolved">>, <<"type", "PySpark">>}
MCMost == [submit |-> 2, edit |-> 1, choice |-> 2, visit |-> 1]
MCLinks == {{}, {<<"q", "join ">>}, {<<"type", "PySpark">>}}
===============================================================================
