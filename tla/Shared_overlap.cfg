CONSTANTS
  s1 = s1  s2 = s2  s3 = s3  t1 = t1  t2 = t2  a = a  b = b  c = c  p = p  q = q
  Service = {s1, s2}
  Template = {t1, t2}
  Vdu = {a, b, c}
  TemplateOf <- ServiceTemplate
  VdusOf <- TemplateVdus
  Deps <- TemplateDeps
  TenantOf <- Tenants
SPECIFICATION FairSpec
PROPERTY BroughtUp
CHECK_DEADLOCK FALSE
