SPECIFICATION Spec
CONSTANTS
  Task = {t1, t2}
  Saved = {t1}
  Session = {s1}
  Text = {a}
  Kind = {"once", "every", "wall"}
  Rules = {"once", "wall"}
  Asked = {"every"}
  MaxTime = 2
  Interval = 1
  Calendar = {2}
  HistoryDays = 1
  HistoryRecords = 1
  MaxCall = 2
  MaxFault = 1
INVARIANTS TypeOK ReceiptIsBacked NoReminderForgotten NoNeedlessRepeat
PROPERTIES DeliveryOverwritesNothing StopLeavesNothing
CHECK_DEADLOCK FALSE
