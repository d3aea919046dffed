--------------------------- MODULE MCProductSearch ---------------------------
(* TLC instances of ProductSearch: five products whose popularity, age and    *)
(* price meet the bounds, and requests that set at most two parameters.       *)
EXTENDS ProductSearch

Document(id, category, subcategories, location, price, popularity, created, drill) ==
    [id |-> id, category |-> category, subcategories |-> subcategories, location |-> location,
     price |-> price, popularity |-> popularity, created |-> created, text |-> <<drill, 0>>]

FiveProducts ==
    {Document(1, 1, {1},    1,  49, 3, -2, 2),
     Document(2, 2, {1, 2}, 1,  50, 3, -1, 2),
     Document(3, 1, {2},    2, 100, 0,  0, 1),
     Document(4, 2, {3},    2, 500, 1, -1, 0),
     Document(5, 1, {1, 3}, 1,  99, 2,  0, 1)}

\* Like a logarithm: the first step is the largest.
Flattening == [popularity \in 0 .. 3 |-> IF popularity = 0 THEN 0 ELSE popularity + 1]

\* The function is flat up to its offset and falls from there.
FlatThenFalling == [age \in 0 .. 4 |-> IF age <= 2 THEN 3 ELSE 5 - age]

\* A correction of the one query, none of the other.
Suggestions ==
    <<[phrases |-> <<2>>, tokens |-> <<<<2, 3>>, <<3>>>>], [phrases |-> <<>>, tokens |-> <<>>]>>

Plain ==
    [q |-> None, category |-> None, subcategory |-> <<>>, location |-> None, minPrice |-> None,
     maxPrice |-> None, sort |-> None, order |-> None, page |-> None, pageSize |-> None]

Settings ==
    {<<"q", Blank>>, <<"q", 1>>, <<"category", 1>>, <<"subcategory", <<1, 2>>>>,
     <<"subcategory", <<2, Blank, 1>>>>, <<"location", 1>>, <<"location", Blank>>,
     <<"minPrice", 50>>, <<"maxPrice", 40>>, <<"sort", "relevance">>, <<"order", "asc">>,
     <<"page", 2>>, <<"pageSize", 3>>, <<"pageSize", 4>>}

UpToTwo == {[[Plain EXCEPT ![s[1]] = s[2]] EXCEPT ![t[1]] = t[2]] : s, t \in Settings}

Browsing == {Plain, [Plain EXCEPT !.page = 2]}

=============================================================================
