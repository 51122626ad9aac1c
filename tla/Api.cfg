SPECIFICATION Spec
CONSTANTS
  Projects = {p1}
  Deliveries = {d1, d2}
  Handlers = {h1, h2}
  MaxAttempts = 2
INVARIANTS OneJobPerDelivery RecordedIsSent SchedulesMatchRows
PROPERTY StopsGracefully
CHECK_DEADLOCK FALSE
