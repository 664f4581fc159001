--------------------------- MODULE BuiltInQuestions ---------------------------
(***************************************************************************)
(* The built-in catalogue (src/data/questions.ts): each question with its     *)
(* tables, the answer of its reference solution and the result the page       *)
(* expects.  Tables keep the columns that the solution reads; dates are       *)
(* numbers like 20260115, and fractions are scaled to whole numbers.          *)
(***************************************************************************)
EXTENDS QuestionBank

HighEngagementVideoFiltering ==
  LET videos == {<<1, 2500000, 840>>, <<2, 850000, 620>>, <<3, 4200000, 1260>>,
                 <<4, 1800000, 540>>, <<5, 640000, 720>>, <<6, 3100000, 960>>}   \* video_id, views, duration_seconds
  IN Judged("high-engagement-video-filtering", "SQL", "Easy", "Filtering",
           {"PostgreSQL", "PySpark"}, {"Netflix"}, TRUE,
         Select({v \in videos : v[2] > 1000000}, Row, LAMBDA v : <<v[3]>>),
         <<<<4, 1800000, 540>>, <<1, 2500000, 840>>, <<6, 3100000, 960>>,
           <<3, 4200000, 1260>>>>)

CustomerOrderAnalysis ==
  LET orders == {<<101, 1, 2500>>, <<102, 2, 1800>>, <<103, 1, 3200>>, <<104, 3, 950>>,
                 <<105, 2, 4200>>, <<106, 1, 1500>>}   \* order_id, customer_id, order_amount
  IN Judged("customer-order-analysis", "SQL", "Easy", "Aggregation",
           {"PostgreSQL", "SQL Server"}, {"Amazon"}, TRUE,
         Select({Group(c, orders, 2) : c \in Values(orders, 2)},
                LAMBDA g : <<g.by, Count(g), Total(g, 3)>>, LAMBDA g : <<-Total(g, 3)>>),
         <<<<1, 3, 7200>>, <<2, 2, 6000>>, <<3, 1, 950>>>>)

EmployeeDepartmentRanking ==
  LET employees == {<<1, "Engineering", 125000>>, <<2, "Engineering", 142000>>,
                    <<3, "Engineering", 118000>>, <<4, "Finance", 110000>>,
                    <<5, "Finance", 132000>>, <<6, "Finance", 125000>>}   \* employee_id, department, salary
  IN Judged("employee-department-ranking", "SQL", "Medium", "Window Functions",
           {"PostgreSQL", "PySpark"}, {"Microsoft"}, FALSE,
         Select(employees, LAMBDA e : <<e[1], e[2], e[3], 1 + Cardinality({f \in employees :
                                    f[2] = e[2] /\ f[3] > e[3]})>>, LAMBDA e : <<>>),
         <<<<2, "Engineering", 142000, 1>>, <<1, "Engineering", 125000, 2>>,
           <<3, "Engineering", 118000, 3>>, <<5, "Finance", 132000, 1>>,
           <<6, "Finance", 125000, 2>>, <<4, "Finance", 110000, 3>>>>)

DuplicateCustomerRecords ==
  LET customers == {<<1, "rahul@example.com", 20260105>>,
                    <<2, "rahul@example.com", 20260210>>,
                    <<3, "priya@example.com", 20260118>>,
                    <<4, "amit@example.com", 20260201>>,
                    <<5, "priya@example.com", 20260302>>}   \* customer_id, email, updated_at
  IN Judged("duplicate-customer-records", "SQL", "Medium", "Data Quality",
           {"PostgreSQL", "Python"}, {"Google"}, FALSE,
         Select({c \in customers : \A d \in customers : d[2] = c[2] => d[3] <= c[3]},
                LAMBDA c : <<c[1], c[2], c[3], 1>>, LAMBDA c : <<>>),
         <<<<4, "amit@example.com", 20260201, 1>>, <<5, "priya@example.com", 20260302, 1>>,
           <<2, "rahul@example.com", 20260210, 1>>>>)

DailySalesPipeline ==
  Unjudged("daily-sales-pipeline", "PySpark", "Hard", "Data Engineering",
           {"PySpark", "Spark SQL"}, {"Meta"})

OrdersWithCustomerNames ==
  LET customers == {<<1, "Aarav Sharma">>, <<2, "Meera Iyer">>, <<3, "Rohan Gupta">>}   \* customer_id, customer_name
      orders == {<<101, 1, 25000>>, <<102, 2, 12050>>, <<103, 1, 7525>>, <<104, 3, 30000>>}   \* order_id, customer_id, amount in cents
  IN Judged("orders-with-customer-names", "SQL", "Easy", "Joins",
           {"PostgreSQL", "MySQL"}, {"Amazon", "Shopify"}, TRUE,
         Select({oc \in orders \X customers : oc[1][2] = oc[2][1]},
                LAMBDA oc : <<oc[1][1], oc[2][2], oc[1][3]>>, LAMBDA oc : <<oc[1][1]>>),
         <<<<101, "Aarav Sharma", 25000>>, <<102, "Meera Iyer", 12050>>,
           <<103, "Aarav Sharma", 7525>>, <<104, "Rohan Gupta", 30000>>>>)

HighAveragePriceCategories ==
  LET products == {<<1, "Accessories", 2500>>, <<2, "Accessories", 12000>>,
                   <<3, "Furniture", 35000>>, <<4, "Furniture", 8000>>,
                   <<5, "Furniture", 60000>>, <<6, "Accessories", 4500>>}   \* product_id, category, price in cents
  IN Judged("high-average-price-categories", "SQL", "Easy", "Aggregation",
           {"PostgreSQL", "SQL Server"}, {"Amazon"}, FALSE,
         Select({g \in {Group(c, products, 2) : c \in Values(products, 2)} : Total(g, 3) > 10000 * Count(g)},
                LAMBDA g : <<g.by, Rounded(Total(g, 3), Count(g))>>, LAMBDA g : <<>>),
         <<<<"Furniture", 34333>>>>)

SalaryBandLabels ==
  LET staff == {<<1, "Aarav", 45000>>, <<2, "Meera", 75000>>, <<3, "Rohan", 120000>>,
                <<4, "Ananya", 60000>>, <<5, "Vikram", 95000>>}   \* employee_id, employee_name, salary
  IN Judged("salary-band-labels", "SQL", "Easy", "Conditional Logic",
           {"PostgreSQL", "MySQL"}, {"Microsoft"}, TRUE,
         Select(staff, LAMBDA e : <<e[1], e[2], IF e[3] >= 100000 THEN "High"
                                               ELSE IF e[3] >= 60000 THEN "Medium" ELSE "Entry">>, LAMBDA e : <<e[1]>>),
         <<<<1, "Aarav", "Entry">>, <<2, "Meera", "Medium">>, <<3, "Rohan", "High">>,
           <<4, "Ananya", "Medium">>, <<5, "Vikram", "Medium">>>>)

FinalPriceAfterDiscount ==
  LET products == {<<1, "Laptop", 1000, 100>>, <<2, "Mouse", 25, Null>>,
                   <<3, "Keyboard", 75, 10>>, <<4, "Monitor", 300, Null>>}   \* product_id, product_name, price, discount
  IN Judged("final-price-after-discount", "SQL", "Easy", "NULL Handling",
           {"PostgreSQL", "MySQL"}, {"Shopify"}, TRUE,
         Select(products, LAMBDA p : <<p[2], p[3] - Coalesce(p[4], 0)>>, LAMBDA p : <<p[1]>>),
         <<<<"Laptop", 900>>, <<"Mouse", 25>>, <<"Keyboard", 65>>, <<"Monitor", 300>>>>)

RecentUserSignups ==
  LET users == {<<1, "aarav", 20260110>>, <<2, "meera", 20260205>>,
                <<3, "rohan", 20260125>>, <<4, "ananya", 20260301>>,
                <<5, "vikram", 20260220>>}   \* user_id, username, signup_date
  IN Judged("recent-user-signups", "SQL", "Easy", "Date Filtering",
           {"PostgreSQL", "MySQL"}, {"Spotify", "Airbnb"}, TRUE,
         Select({u \in users : u[3] >= 20260201}, Row, LAMBDA u : <<u[3]>>),
         <<<<2, "meera", 20260205>>, <<5, "vikram", 20260220>>, <<4, "ananya", 20260301>>>>)

TopProductsByQuantity ==
  LET sales == {<<1, "Laptop", 5>>, <<2, "Mouse", 20>>, <<3, "Keyboard", 12>>,
                <<4, "Monitor", 8>>, <<5, "Webcam", 20>>, <<6, "Headset", 3>>}   \* sale_id, product_name, quantity
      names == <<"Headset", "Keyboard", "Laptop", "Monitor", "Mouse", "Webcam">>
  IN Judged("top-products-by-quantity", "SQL", "Easy", "Top-N",
           {"PostgreSQL", "MySQL"}, {"Amazon", "Stripe"}, TRUE,
         Limit(3, Select({Group(p, sales, 2) : p \in Values(sales, 2)},
                         LAMBDA g : <<g.by, Total(g, 3)>>, LAMBDA g : <<-Total(g, 3), At(g.by, names)>>)),
         <<<<"Mouse", 20>>, <<"Webcam", 20>>, <<"Keyboard", 12>>>>)

DuplicateEmailAddresses ==
  LET subscribers == {<<1, "a@example.com">>, <<2, "b@example.com">>,
                      <<3, "a@example.com">>, <<4, "c@example.com">>,
                      <<5, "b@example.com">>, <<6, "b@example.com">>}   \* subscriber_id, email
      emails == <<"a@example.com", "b@example.com", "c@example.com">>
  IN Judged("duplicate-email-addresses", "SQL", "Easy", "Duplicates",
           {"PostgreSQL", "SQL Server"}, {"Google"}, TRUE,
         Select({g \in {Group(e, subscribers, 2) : e \in Values(subscribers, 2)} : Count(g) > 1},
                LAMBDA g : <<g.by, Count(g)>>, LAMBDA g : <<At(g.by, emails)>>),
         <<<<"a@example.com", 2>>, <<"b@example.com", 3>>>>)

CustomersWithoutOrders ==
  LET customers == {<<1, "Aarav Sharma">>, <<2, "Meera Iyer">>, <<3, "Rohan Gupta">>,
                    <<4, "Ananya Rao">>}   \* customer_id, customer_name
      orders == {<<101, 1>>, <<102, 3>>}   \* order_id, customer_id
  IN Judged("customers-without-orders", "SQL", "Medium", "Joins",
           {"PostgreSQL", "MySQL"}, {"Shopify", "Stripe"}, TRUE,
         Select({c \in customers : c[1] \notin Values(orders, 2)}, Row, LAMBDA c : <<c[1]>>),
         <<<<2, "Meera Iyer">>, <<4, "Ananya Rao">>>>)

EmployeeManagerHierarchy ==
  LET employees == {<<1, "Aarav", Null>>, <<2, "Meera", 1>>, <<3, "Rohan", 1>>,
                    <<4, "Ananya", 2>>, <<5, "Vikram", 2>>}   \* employee_id, employee_name, manager_id
      names == <<"Aarav", "Ananya", "Meera", "Rohan", "Vikram">>
  IN Judged("employee-manager-hierarchy", "SQL", "Medium", "Self Join",
           {"PostgreSQL", "SQL Server"}, {"Microsoft", "Google"}, TRUE,
         Select({em \in employees \X employees : Equal(em[1][3], em[2][1])},
                LAMBDA em : <<em[1][2], em[2][2]>>, LAMBDA em : <<At(em[1][2], names)>>),
         <<<<"Ananya", "Meera">>, <<"Meera", "Aarav">>, <<"Rohan", "Aarav">>,
           <<"Vikram", "Meera">>>>)

AboveAveragePricedProducts ==
  LET products == {<<1, "Pen", 10>>, <<2, "Notebook", 25>>, <<3, "Backpack", 80>>,
                   <<4, "Chair", 150>>, <<5, "Desk", 300>>}   \* product_id, product_name, price
  IN Judged("above-average-priced-products", "SQL", "Medium", "Subqueries",
           {"PostgreSQL", "MySQL"}, {"Amazon"}, TRUE,
         Select({p \in products : p[3] * Cardinality(products) > Sum(products, 3)},
                LAMBDA p : <<p[2], p[3]>>, LAMBDA p : <<p[3]>>),
         <<<<"Chair", 150>>, <<"Desk", 300>>>>)

HighRevenueMonths ==
  LET orders == {<<1, 20260105, 200>>, <<2, 20260118, 350>>, <<3, 20260202, 400>>,
                 <<4, 20260220, 150>>, <<5, 20260310, 900>>, <<6, 20260322, 250>>}   \* order_id, order_date, amount
  IN Judged("high-revenue-months", "SQL", "Medium", "CTEs",
           {"PostgreSQL", "SQL Server"}, {"Uber", "Stripe"}, TRUE,
         Select({g \in Monthly(orders, 2) : Total(g, 3) > 600},
                LAMBDA g : <<g.by, Total(g, 3)>>, LAMBDA g : <<g.by>>),
         <<<<202603, 1150>>>>)

RevenueByChannel ==
  LET orders == {<<1, "East", "Online", 100>>, <<2, "East", "Store", 200>>,
                 <<3, "West", "Online", 150>>, <<4, "West", "Store", 50>>,
                 <<5, "East", "Online", 300>>, <<6, "North", "Store", 400>>}   \* order_id, region, channel, amount
      regions == <<"East", "North", "West">>
  IN Judged("revenue-by-channel", "SQL", "Medium", "Conditional Aggregation",
           {"PostgreSQL", "SQL Server"}, {"Meta", "Amazon"}, TRUE,
         Select({Group(r, orders, 2) : r \in Values(orders, 2)},
                LAMBDA g : <<g.by, Sum({o \in g.rows : o[3] = "Online"}, 4),
                             Sum({o \in g.rows : o[3] = "Store"}, 4)>>, LAMBDA g : <<At(g.by, regions)>>),
         <<<<"East", 400, 200>>, <<"North", 0, 400>>, <<"West", 150, 50>>>>)

LargeHighPaidDepartments ==
  LET employees == {<<1, "Engineering", 9000000>>, <<2, "Engineering", 11000000>>,
                    <<3, "Engineering", 9500000>>, <<4, "Sales", 5000000>>,
                    <<5, "Sales", 5500000>>, <<6, "Finance", 12000000>>,
                    <<7, "Finance", 11500000>>, <<8, "Finance", 12500000>>,
                    <<9, "Finance", 11000000>>}   \* employee_id, department, salary in cents
      departments == <<"Engineering", "Finance", "Sales">>
  IN Judged("large-high-paid-departments", "SQL", "Medium", "Aggregation",
           {"PostgreSQL", "SQL Server"}, {"Google", "Microsoft"}, TRUE,
         Select({g \in {Group(d, employees, 2) : d \in Values(employees, 2)} :
                   Count(g) >= 3 /\ Total(g, 3) > 9500000 * Count(g)},
                LAMBDA g : <<g.by, Count(g), Rounded(Total(g, 3), Count(g))>>, LAMBDA g : <<At(g.by, departments)>>),
         <<<<"Engineering", 3, 9833333>>, <<"Finance", 4, 11750000>>>>)

RunningOrderTotals ==
  LET orders == {<<1, 20260105, 100>>, <<2, 20260105, 200>>, <<3, 20260112, 150>>,
                 <<4, 20260120, 300>>}   \* order_id, order_date, amount
  IN Judged("running-order-totals", "SQL", "Medium", "Window Functions",
           {"PostgreSQL", "SQL Server"}, {"Stripe", "Uber"}, TRUE,
         Select(orders, LAMBDA o : <<o[1], o[2], Sum({p \in orders : ~Before(<<o[2], o[1]>>, <<p[2], p[1]>>)}, 3)>>,
                LAMBDA o : <<o[2], o[1]>>),
         <<<<1, 20260105, 100>>, <<2, 20260105, 300>>, <<3, 20260112, 450>>,
           <<4, 20260120, 750>>>>)

EmployeeTenureBuckets ==
  LET employees == {<<1, "Aarav", 20200315>>, <<2, "Meera", 20230801>>,
                    <<3, "Rohan", 20250110>>, <<4, "Ananya", 20181130>>}   \* employee_id, employee_name, hire_date
      Years(date) == (20260601 - date) \div 10000
  IN Judged("employee-tenure-buckets", "SQL", "Medium", "Date Operations",
           {"PostgreSQL"}, {"Meta", "Airbnb"}, TRUE,
         Select(employees, LAMBDA e : <<e[2], Years(e[3]), IF Years(e[3]) >= 5 THEN "Veteran" ELSE "Regular">>,
                LAMBDA e : <<e[1]>>),
         <<<<"Aarav", 6, "Veteran">>, <<"Meera", 2, "Regular">>, <<"Rohan", 1, "Regular">>,
           <<"Ananya", 7, "Veteran">>>>)

TopTwoProductsPerCategory ==
  LET sales == {<<"Laptop", "Electronics", 5000>>, <<"Phone", "Electronics", 7000>>,
                <<"Tablet", "Electronics", 3000>>, <<"Chair", "Furniture", 2000>>,
                <<"Desk", "Furniture", 4500>>, <<"Lamp", "Furniture", 800>>}   \* product_name, category, revenue
      Rank(s) == 1 + Cardinality({r \in sales : r[2] = s[2] /\ r[3] > s[3]})
  IN Judged("top-two-products-per-category", "SQL", "Hard", "Ranking",
           {"PostgreSQL", "SQL Server"}, {"Amazon", "Meta"}, TRUE,
         Select({s \in sales : Rank(s) <= 2}, LAMBDA s : Append(s, Rank(s)),
                LAMBDA s : <<At(s[2], <<"Electronics", "Furniture">>), Rank(s)>>),
         <<<<"Phone", "Electronics", 7000, 1>>, <<"Laptop", "Electronics", 5000, 2>>,
           <<"Desk", "Furniture", 4500, 1>>, <<"Chair", "Furniture", 2000, 2>>>>)

MonthlyRevenueGrowth ==
  LET orders == {<<1, 20260108, 400>>, <<2, 20260121, 600>>, <<3, 20260204, 700>>,
                 <<4, 20260219, 800>>, <<5, 20260305, 900>>, <<6, 20260325, 900>>}   \* order_id, order_date, amount
      months == Monthly(orders, 2)
      Growth(g) ==   \* in tenths of a percent, over the month before
        IF \A h \in months : h.by >= g.by THEN Null
        ELSE LET lag == CHOOSE h \in months : h.by < g.by /\ \A k \in months : k.by < g.by => k.by <= h.by
             IN Rounded((Total(g, 3) - Total(lag, 3)) * 1000, Total(lag, 3))
  IN Judged("monthly-revenue-growth", "SQL", "Hard", "Window Functions",
           {"PostgreSQL", "SQL Server"}, {"Stripe", "Uber"}, TRUE,
         Select(months, LAMBDA g : <<g.by, Total(g, 3), Growth(g)>>, LAMBDA g : <<g.by>>),
         <<<<202601, 1000, Null>>, <<202602, 1500, 500>>, <<202603, 1800, 200>>>>)

ProductsNeverOrdered ==
  LET products == {<<1, "Laptop">>, <<2, "Mouse">>, <<3, "Keyboard">>, <<4, "Monitor">>}   \* product_id, product_name
      order_items == {<<1, 1>>, <<2, 2>>, <<3, 1>>, <<4, 2>>}   \* order_id, product_id
  IN Judged("products-never-ordered", "SQL", "Hard", "Subqueries",
           {"PostgreSQL", "MySQL"}, {"Shopify", "Amazon"}, TRUE,
         Select({p \in products : \A i \in order_items : i[2] # p[1]}, Row, LAMBDA p : <<p[1]>>),
         <<<<3, "Keyboard">>, <<4, "Monitor">>>>)

SignupConversionByMonth ==
  LET users == {<<1, 20260105>>, <<2, 20260112>>, <<3, 20260120>>, <<4, 20260128>>,
                <<5, 20260203>>, <<6, 20260215>>}   \* user_id, signup_date
      orders == {<<101, 1>>, <<102, 3>>, <<103, 5>>, <<104, 6>>}   \* order_id, user_id
      Buyers(g) == Cardinality({u \in g.rows : u[1] \in Values(orders, 2)})
  IN Judged("signup-conversion-by-month", "SQL", "Hard", "CTEs",
           {"PostgreSQL", "SQL Server"}, {"Airbnb", "Spotify"}, TRUE,
         Select(Monthly(users, 2), LAMBDA g : <<g.by, Count(g), Buyers(g), Rounded(Buyers(g) * 1000, Count(g))>>,
                LAMBDA g : <<g.by>>),
         <<<<202601, 4, 2, 500>>, <<202602, 2, 2, 1000>>>>)

AboveDepartmentAverageEarners ==
  LET employees == {<<1, "Aarav", "Engineering", 80000>>,
                    <<2, "Meera", "Engineering", 100000>>,
                    <<3, "Rohan", "Engineering", 120000>>, <<4, "Ananya", "Sales", 50000>>,
                    <<5, "Vikram", "Sales", 70000>>, <<6, "Ishita", "Support", 90000>>}   \* employee_id, employee_name, department, salary
  IN Judged("above-department-average-earners", "SQL", "Hard", "Subqueries",
           {"PostgreSQL", "MySQL"}, {"Google", "Meta"}, TRUE,
         Select({e \in employees : LET d == Group(e[3], employees, 3) IN e[4] * Count(d) > Total(d, 4)},
                LAMBDA e : <<e[2], e[3], e[4]>>, LAMBDA e : <<-e[4]>>),
         <<<<"Rohan", "Engineering", 120000>>, <<"Vikram", "Sales", 70000>>>>)

PysparkCustomerRevenueTotals ==
  LET orders == {<<1, 1, 250>>, <<2, 2, 100>>, <<3, 1, 75>>, <<4, 3, 300>>, <<5, 2, 150>>}   \* order_id, customer_id, amount
  IN Judged("pyspark-customer-revenue-totals", "PySpark", "Easy", "Aggregation",
           {"PySpark"}, {"Meta"}, FALSE,
         Select({Group(c, orders, 2) : c \in Values(orders, 2)}, LAMBDA g : <<g.by, Total(g, 3)>>, Unsorted),
         <<<<1, 325>>, <<2, 250>>, <<3, 300>>>>)

PysparkPremiumCustomerOrders ==
  LET customers == {<<1, "Aarav">>, <<2, "Meera">>, <<3, "Rohan">>}   \* customer_id, customer_name
      orders == {<<101, 1, 120>>, <<102, 2, 300>>, <<103, 1, 200>>, <<104, 3, 50>>,
                 <<105, 2, 100>>}   \* order_id, customer_id, amount
      Spent(c) == Sum({o \in orders : o[2] = c[1]}, 3)
  IN Judged("pyspark-premium-customer-orders", "PySpark", "Medium", "Joins",
           {"PySpark"}, {"Meta"}, FALSE,
         Select({c \in customers : Spent(c) > 250}, LAMBDA c : <<c[2], Spent(c)>>, Unsorted),
         <<<<"Aarav", 320>>, <<"Meera", 400>>>>)

PysparkTopProductsByCategory ==
  LET sales == {<<"Laptop", "Electronics", 5000>>, <<"Phone", "Electronics", 7000>>,
                <<"Tablet", "Electronics", 3000>>, <<"Desk", "Furniture", 4500>>,
                <<"Chair", "Furniture", 2000>>, <<"Lamp", "Furniture", 800>>}   \* product, category, revenue
      Rank(s) == 1 + Cardinality({r \in sales : r[2] = s[2] /\ r[3] > s[3]})
  IN Judged("pyspark-top-products-by-category", "PySpark", "Hard", "Window Functions",
           {"PySpark"}, {"Meta"}, FALSE,
         Select({s \in sales : Rank(s) <= 2}, LAMBDA s : Append(s, Rank(s)), Unsorted),
         <<<<"Phone", "Electronics", 7000, 1>>, <<"Laptop", "Electronics", 5000, 2>>,
           <<"Desk", "Furniture", 4500, 1>>, <<"Chair", "Furniture", 2000, 2>>>>)

PysparkDeduplicateCustomerEmails ==
  LET customers == {<<1, "Aarav", "aarav@example.com">>,
                    <<2, "Meera", "meera@example.com">>,
                    <<3, "Aarav Sharma", "aarav@example.com">>,
                    <<4, "Rohan", "rohan@example.com">>,
                    <<5, "Meera Iyer", "meera@example.com">>}   \* customer_id, customer_name, email
  IN Judged("pyspark-deduplicate-customer-emails", "PySpark", "Easy", "Data Cleaning",
           {"PySpark"}, {"Meta"}, FALSE,
         Select({c \in customers : \A d \in customers : d[3] = c[3] => c[1] <= d[1]}, Row, Unsorted),
         <<<<1, "Aarav", "aarav@example.com">>, <<2, "Meera", "meera@example.com">>,
           <<4, "Rohan", "rohan@example.com">>>>)

PysparkFillMissingCities ==
  LET users == {<<1, "Aarav", "Mumbai">>, <<2, "Meera", Null>>, <<3, "Rohan", "Delhi">>,
                <<4, "Ananya", Null>>}   \* user_id, username, city
  IN Judged("pyspark-fill-missing-cities", "PySpark", "Easy", "Data Cleaning",
           {"PySpark"}, {"Meta"}, FALSE,
         Select(users, LAMBDA u : <<u[1], u[2], Coalesce(u[3], "Unknown")>>, Unsorted),
         <<<<1, "Aarav", "Mumbai">>, <<2, "Meera", "Unknown">>, <<3, "Rohan", "Delhi">>,
           <<4, "Ananya", "Unknown">>>>)

PysparkMonthlyOrderRevenue ==
  LET orders == {<<101, 20260105, 200>>, <<102, 20260118, 350>>, <<103, 20260202, 400>>,
                 <<104, 20260220, 150>>, <<105, 20260310, 900>>, <<106, 20260322, 250>>}   \* order_id, order_date, amount
  IN Judged("pyspark-monthly-order-revenue", "PySpark", "Medium", "Aggregation",
           {"PySpark"}, {"Meta"}, FALSE,
         Select(Monthly(orders, 2), LAMBDA g : <<g.by % 100, Total(g, 3)>>, Unsorted),
         <<<<1, 550>>, <<2, 550>>, <<3, 1150>>>>)

PysparkRunningDailyRevenue ==
  LET sales == {<<1, 20260301, 1200>>, <<2, 20260301, 850>>, <<3, 20260302, 1450>>,
                <<4, 20260303, 980>>, <<5, 20260304, 1750>>}   \* sale_id, sale_date, amount
  IN Judged("pyspark-running-daily-revenue", "PySpark", "Medium", "Window Functions",
           {"PySpark"}, {"Meta"}, FALSE,
         Select(sales, LAMBDA s : Append(s, Sum({r \in sales : ~Before(<<s[2], s[1]>>, <<r[2], r[1]>>)}, 3)), Unsorted),
         <<<<1, 20260301, 1200, 1200>>, <<2, 20260301, 850, 2050>>,
           <<3, 20260302, 1450, 3500>>, <<4, 20260303, 980, 4480>>,
           <<5, 20260304, 1750, 6230>>>>)

PysparkDepartmentSalaryRanks ==
  LET employees == {<<"Aarav", "Engineering", 125000>>, <<"Meera", "Engineering", 142000>>,
                    <<"Rohan", "Engineering", 142000>>, <<"Ananya", "Finance", 110000>>,
                    <<"Vikram", "Finance", 132000>>, <<"Ishita", "Finance", 110000>>}   \* employee_name, department, salary
  IN Judged("pyspark-department-salary-ranks", "PySpark", "Medium", "Window Functions",
           {"PySpark"}, {"Meta"}, FALSE,
         Select(employees, LAMBDA e : Append(e, 1 + Cardinality({x[3] : x \in {f \in employees :
                                     f[2] = e[2] /\ f[3] > e[3]}})), Unsorted),
         <<<<"Meera", "Engineering", 142000, 1>>, <<"Rohan", "Engineering", 142000, 1>>,
           <<"Aarav", "Engineering", 125000, 2>>, <<"Vikram", "Finance", 132000, 1>>,
           <<"Ananya", "Finance", 110000, 2>>, <<"Ishita", "Finance", 110000, 2>>>>)

PysparkOrderValueSegments ==
  LET orders == {<<101, 250>>, <<102, 1800>>, <<103, 3200>>, <<104, 950>>, <<105, 4200>>,
                 <<106, 1500>>}   \* order_id, amount
  IN Judged("pyspark-order-value-segments", "PySpark", "Hard", "Conditional Logic",
           {"PySpark"}, {"Meta"}, FALSE,
         Select(orders, LAMBDA o : Append(o, IF o[2] >= 3000 THEN "Premium"
                                              ELSE IF o[2] >= 1000 THEN "Standard" ELSE "Basic"), Unsorted),
         <<<<101, 250, "Basic">>, <<102, 1800, "Standard">>, <<103, 3200, "Premium">>,
           <<104, 950, "Basic">>, <<105, 4200, "Premium">>, <<106, 1500, "Standard">>>>)

PysparkValidTransactionFilter ==
  LET transactions == {<<1, 250, "complete">>, <<2, Null, "complete">>,
                       <<3, -50, "complete">>, <<4, 300, Null>>, <<5, 0, "pending">>,
                       <<6, 120, "complete">>}   \* transaction_id, amount, status
  IN Judged("pyspark-valid-transaction-filter", "PySpark", "Hard", "Data Quality",
           {"PySpark"}, {"Meta"}, FALSE,
         Select({t \in transactions : t[2] # Null /\ t[2] > 0 /\ t[3] = "complete"}, Row, Unsorted),
         <<<<1, 250, "complete">>, <<6, 120, "complete">>>>)
-------------------------------------------------------------------------------
\* The catalogue, in its order.
Questions ==
  <<HighEngagementVideoFiltering, CustomerOrderAnalysis,
    EmployeeDepartmentRanking, DuplicateCustomerRecords, DailySalesPipeline,
    OrdersWithCustomerNames, HighAveragePriceCategories, SalaryBandLabels,
    FinalPriceAfterDiscount, RecentUserSignups, TopProductsByQuantity,
    DuplicateEmailAddresses, CustomersWithoutOrders,
    EmployeeManagerHierarchy, AboveAveragePricedProducts, HighRevenueMonths,
    RevenueByChannel, LargeHighPaidDepartments, RunningOrderTotals,
    EmployeeTenureBuckets, TopTwoProductsPerCategory, MonthlyRevenueGrowth,
    ProductsNeverOrdered, SignupConversionByMonth,
    AboveDepartmentAverageEarners, PysparkCustomerRevenueTotals,
    PysparkPremiumCustomerOrders, PysparkTopProductsByCategory,
    PysparkDeduplicateCustomerEmails, PysparkFillMissingCities,
    PysparkMonthlyOrderRevenue, PysparkRunningDailyRevenue,
    PysparkDepartmentSalaryRanks, PysparkOrderValueSegments,
    PysparkValidTransactionFilter>>
===============================================================================
